---- MODULE Spec2Model ----
(***************************************************************************)
(* The authorization and relationship-management core of fast_dash: the    *)
(* request handlers of app/api/v1/endpoints (projects, decisions, events,  *)
(* tasks, notes, users, user_admin, auth), app/api/views.py and the        *)
(* principal resolution of app/api/deps.py, over the tables declared in    *)
(* app/models.  Every handler is an operator from (tables, principal,      *)
(* arguments) to [status, body, db]: the HTTP status it answers with, the  *)
(* body it returns, and the tables as its commits leave them.  One action  *)
(* per handler applies that operator to the stored tables.                 *)
(*                                                                         *)
(* The storage layer is the relational schema the models declare: primary  *)
(* keys and users.email are unique, foreign keys are enforced (the        *)
(* handlers rely on it:                                                    *)
(* "Delete task assignees first (foreign key constraint)"), auto-increment *)
(* ids are never reused, and an exception no handler catches is answered   *)
(* with status 500.                                                        *)
(***************************************************************************)
EXTENDS Integers, Sequences, FiniteSets, TLC

\* Principals that were ever registered: user ids 1..NumUsers.
NumUsers == 3
\* Rows a behaviour creates over all resource tables; row ids are 1..MaxRows.
MaxRows == 2
\* Longest membership list (assignees, shared_with) a payload carries.
MaxLen == 2

\* Python's None (and the falsy "unset" of an Optional column).
None == 0
\* skip / limit defaults of every list endpoint.
DefaultSkip == 0
DefaultLimit == 100

UserIds == 1..NumUsers
RowIds == 1..MaxRows

UserRole == {"user", "client", "staff", "manager", "admin", "super_admin"}

VARIABLES
    users,           \* users table: id -> [email, password, full_name, roles, image, avatar_url]
    projects,        \* projects table: id -> [owner_id]
    decisions,       \* decisions table: id -> [user_id]
    events,          \* events table: id -> [user_id]
    tasks,           \* tasks table: id -> [project_id]
    task_assignees,  \* junction table: set of <<task_id, user_id>>
    notes,           \* notes table: id -> [user_id, task_id]
    note_shares,     \* junction table: set of <<note_id, user_id>>
    next_id,         \* next fresh id of each table (auto-increment; a new uuid for users)
    response,        \* the status code of the last request answered
    issued,          \* the access tokens login has issued: [user, token]
    USE_SSH,         \* settings.USE_SSH
    _tunnel,         \* app.db.session._tunnel: None or a tunnel
    _engine,         \* app.db.session._engine: None or an engine
    threads,         \* each thread's position in get_engine and the calls it has made
    built,           \* the engines and tunnels constructed, the start() calls on each tunnel
    returned,        \* the engines get_engine has returned
    requests         \* the requests under way statement by statement, with their transactions

vars == <<users, projects, decisions, events, tasks, task_assignees, notes,
          note_shares, next_id, response, issued,
          USE_SSH, _tunnel, _engine, threads, built, returned, requests>>

\* The tables as one value: what a handler reads and what it hands back.
DB == [users |-> users, projects |-> projects, decisions |-> decisions,
       events |-> events, tasks |-> tasks, task_assignees |-> task_assignees,
       notes |-> notes, note_shares |-> note_shares, next_id |-> next_id]

\* ------------------------------------------------------------- storage ----

\* db.get(Model, id): the row, when there is one.
Exists(table, id) == id \in DOMAIN table

\* db.add(row); db.commit() of a new or changed row.
Put(table, id, row) == [x \in DOMAIN table \cup {id} |-> IF x = id THEN row ELSE table[x]]

\* db.delete(row); db.commit().
Remove(table, id) == [x \in DOMAIN table \ {id} |-> table[x]]

\* A foreign key to users.id / projects.id / tasks.id: NULL or an existing row.
FkUser(db, id) == id = None \/ id \in DOMAIN db.users
FkProject(db, id) == id = None \/ id \in DOMAIN db.projects
FkTask(db, id) == id = None \/ id \in DOMAIN db.tasks

\* .offset(skip).limit(limit) over rows in primary-key order, as a set of ids.
Page(ids, skip, limit) ==
    {i \in ids : LET before == Cardinality({j \in ids : j < i})
                 IN  before >= skip /\ before < skip + limit}

\* A handler's answer.
Answer(status, body, db) == [status |-> status, body |-> body, db |-> db]
\* raise HTTPException(status_code=...): nothing was committed.
Raise(db, status) == Answer(status, {}, db)

\* ---------------------------------------------------------- privileges ----

\* A faulty is_privileged: ADMIN alone does not count.
is_privileged_super_only(db, u) == "super_admin" \in db.users[u].roles

\* User.is_privileged
is_privileged(db, u) ==
    "admin" \in db.users[u].roles \/ "super_admin" \in db.users[u].roles

\* A faulty is_admin: every principal passes.
is_admin_anyone(db, u) == TRUE

\* The inline test of projects.py, decisions.py and events.py.
is_admin(db, u) ==
    "super_admin" \in db.users[u].roles \/ "admin" \in db.users[u].roles

\* ------------------------------------------------------------ projects ----

list_projects(db, u) ==
    LET rows == IF is_admin(db, u) THEN DOMAIN db.projects
                ELSE {p \in DOMAIN db.projects : db.projects[p].owner_id = u}
    IN  Answer(200, Page(rows, DefaultSkip, DefaultLimit), db)

read_project(db, u, project_id) ==
    IF ~Exists(db.projects, project_id) THEN Raise(db, 404)
    ELSE IF ~is_admin(db, u) /\ db.projects[project_id].owner_id # u THEN Raise(db, 403)
    ELSE Answer(200, db.projects[project_id], db)

\* project: the posted Project body; its owner_id may be left unset.
create_project(db, u, project) ==
    LET owner == IF project.owner_id = None THEN u ELSE project.owner_id
        id    == db.next_id.projects
        row   == [owner_id |-> owner]
    IN  IF ~FkUser(db, owner) THEN Raise(db, 500)
        ELSE Answer(200, row,
                    [db EXCEPT !.projects = Put(db.projects, id, row),
                               !.next_id.projects = id + 1])

\* project_update: a dict; every key it holds is set on the row.
update_project(db, u, project_id, project_update) ==
    IF ~Exists(db.projects, project_id) THEN Raise(db, 404)
    ELSE IF ~is_admin(db, u) /\ db.projects[project_id].owner_id # u THEN Raise(db, 403)
    ELSE LET row == [k \in DOMAIN db.projects[project_id] |->
                        IF k \in DOMAIN project_update THEN project_update[k]
                        ELSE db.projects[project_id][k]]
         IN  IF ~FkUser(db, row.owner_id) THEN Raise(db, 500)
             ELSE Answer(200, row, [db EXCEPT !.projects = Put(db.projects, project_id, row)])

delete_project(db, u, project_id) ==
    IF ~Exists(db.projects, project_id) THEN Raise(db, 404)
    ELSE IF ~is_admin(db, u) /\ db.projects[project_id].owner_id # u THEN Raise(db, 403)
    ELSE IF \E t \in DOMAIN db.tasks : db.tasks[t].project_id = project_id THEN Raise(db, 500)
    ELSE Answer(200, {}, [db EXCEPT !.projects = Remove(db.projects, project_id)])

\* ----------------------------------------------------------- decisions ----

list_decisions(db, u) ==
    LET rows == IF is_admin(db, u) THEN DOMAIN db.decisions
                ELSE {d \in DOMAIN db.decisions : db.decisions[d].user_id = u}
    IN  Answer(200, Page(rows, DefaultSkip, DefaultLimit), db)

read_decision(db, u, decision_id) ==
    IF ~Exists(db.decisions, decision_id) THEN Raise(db, 404)
    ELSE IF ~is_admin(db, u) /\ db.decisions[decision_id].user_id # u THEN Raise(db, 403)
    ELSE Answer(200, db.decisions[decision_id], db)

create_decision(db, u, decision) ==
    LET owner == IF decision.user_id = None THEN u ELSE decision.user_id
        id    == db.next_id.decisions
        row   == [user_id |-> owner]
    IN  IF ~FkUser(db, owner) THEN Raise(db, 500)
        ELSE Answer(200, row,
                    [db EXCEPT !.decisions = Put(db.decisions, id, row),
                               !.next_id.decisions = id + 1])

update_decision(db, u, decision_id, decision_update) ==
    IF ~Exists(db.decisions, decision_id) THEN Raise(db, 404)
    ELSE IF ~is_admin(db, u) /\ db.decisions[decision_id].user_id # u THEN Raise(db, 403)
    ELSE LET row == [k \in DOMAIN db.decisions[decision_id] |->
                        IF k \in DOMAIN decision_update THEN decision_update[k]
                        ELSE db.decisions[decision_id][k]]
         IN  IF ~FkUser(db, row.user_id) THEN Raise(db, 500)
             ELSE Answer(200, row, [db EXCEPT !.decisions = Put(db.decisions, decision_id, row)])

\* A faulty delete_decision: the permission test runs before the lookup.
delete_decision_gate_first(db, u, decision_id) ==
    IF ~is_admin(db, u)
       /\ (~Exists(db.decisions, decision_id) \/ db.decisions[decision_id].user_id # u)
    THEN Raise(db, 403)
    ELSE IF ~Exists(db.decisions, decision_id) THEN Raise(db, 404)
    ELSE Answer(200, {}, [db EXCEPT !.decisions = Remove(db.decisions, decision_id)])

delete_decision(db, u, decision_id) ==
    IF ~Exists(db.decisions, decision_id) THEN Raise(db, 404)
    ELSE IF ~is_admin(db, u) /\ db.decisions[decision_id].user_id # u THEN Raise(db, 403)
    ELSE Answer(200, {}, [db EXCEPT !.decisions = Remove(db.decisions, decision_id)])

\* -------------------------------------------------------------- events ----

list_events(db, u) == Answer(200, Page(DOMAIN db.events, DefaultSkip, DefaultLimit), db)

read_event(db, u, event_id) ==
    IF ~Exists(db.events, event_id) THEN Raise(db, 404)
    ELSE Answer(200, db.events[event_id], db)

create_event(db, u, event_in) ==
    LET creator == IF event_in.user_id = None THEN u ELSE event_in.user_id
        id      == db.next_id.events
        row     == [user_id |-> creator]
    IN  IF ~FkUser(db, creator) THEN Raise(db, 500)
        ELSE Answer(200, row,
                    [db EXCEPT !.events = Put(db.events, id, row),
                               !.next_id.events = id + 1])

\* A faulty update_event: the creator of an event is not let through.
update_event_admin_only(db, u, event_id, event_in) ==
    IF ~Exists(db.events, event_id) THEN Raise(db, 404)
    ELSE IF ~is_admin(db, u) THEN Raise(db, 403)
    ELSE LET row == [k \in DOMAIN db.events[event_id] |->
                        IF k \in DOMAIN event_in THEN event_in[k]
                        ELSE db.events[event_id][k]]
         IN  IF ~FkUser(db, row.user_id) THEN Raise(db, 500)
             ELSE Answer(200, row, [db EXCEPT !.events = Put(db.events, event_id, row)])

\* event_in: the fields the request set (EventUpdate.dict(exclude_unset=True)).
update_event(db, u, event_id, event_in) ==
    IF ~Exists(db.events, event_id) THEN Raise(db, 404)
    ELSE LET is_owner == db.events[event_id].user_id = u
         IN  IF ~is_admin(db, u) /\ ~is_owner THEN Raise(db, 403)
             ELSE LET row == [k \in DOMAIN db.events[event_id] |->
                                 IF k \in DOMAIN event_in THEN event_in[k]
                                 ELSE db.events[event_id][k]]
                  IN  IF ~FkUser(db, row.user_id) THEN Raise(db, 500)
                      ELSE Answer(200, row, [db EXCEPT !.events = Put(db.events, event_id, row)])

delete_event(db, u, event_id) ==
    IF ~Exists(db.events, event_id) THEN Raise(db, 404)
    ELSE LET is_owner == db.events[event_id].user_id = u
         IN  IF ~is_admin(db, u) /\ ~is_owner THEN Raise(db, 403)
             ELSE Answer(200, {}, [db EXCEPT !.events = Remove(db.events, event_id)])

\* --------------------------------------------------------------- tasks ----

\* One INSERT per id of the list, in order, on one connection: a repeated
\* (row, user) pair breaks the composite primary key and an unknown user the
\* foreign key; either raises and the connection's transaction is rolled back.
RECURSIVE InsertEach(_, _, _, _)
InsertEach(db, rows, rid, ids) ==
    IF ids = <<>> THEN [ok |-> TRUE, rows |-> rows]
    ELSE LET row == <<rid, Head(ids)>>
         IN  IF row \in rows \/ Head(ids) \notin DOMAIN db.users
             THEN [ok |-> FALSE, rows |-> rows]
             ELSE InsertEach(db, rows \cup {row}, rid, Tail(ids))

\* The value a request body gives the membership key: a JSON list of ids, or
\* some other non-null JSON value (a string, a number, an object).
List(ids) == [is_list |-> TRUE, items |-> ids]
NotAList == [is_list |-> FALSE, items |-> <<>>]

\* A faulty InsertList: only the first id of the list is inserted.
InsertList_first(db, rows, rid, value) ==
    IF value.is_list /\ value.items # <<>>
    THEN InsertEach(db, rows, rid, <<Head(value.items)>>)
    ELSE [ok |-> TRUE, rows |-> rows]

\* The INSERT loop of the handlers; it runs only under isinstance(..., list).
InsertList(db, rows, rid, value) ==
    IF value.is_list THEN InsertEach(db, rows, rid, value.items)
    ELSE [ok |-> TRUE, rows |-> rows]

\* A faulty DeleteRows: nothing is deleted.
DeleteRows_none(rows, rid) == rows

\* DELETE FROM <junction> WHERE <resource id> = rid
DeleteRows(rows, rid) == {r \in rows : r[1] # rid}

\* A faulty project_owned: an assignee passes as well.
project_owned_or_assigned(db, u, t) ==
    \/ /\ db.tasks[t].project_id # None
       /\ Exists(db.projects, db.tasks[t].project_id)
       /\ db.projects[db.tasks[t].project_id].owner_id = u
    \/ <<t, u>> \in db.task_assignees

\* project.owner_id == current_user.id, for the task's project when it has one.
project_owned(db, u, t) ==
    /\ db.tasks[t].project_id # None
    /\ Exists(db.projects, db.tasks[t].project_id)
    /\ db.projects[db.tasks[t].project_id].owner_id = u

\* A faulty assigned: the assignment is never seen.
assigned_never(db, u, t) == FALSE

\* A task_assignees row (t, u) exists.
assigned(db, u, t) == <<t, u>> \in db.task_assignees

\* project_id: the optional query filter; None lists every project's tasks.
list_tasks(db, u, project_id) ==
    LET visible == IF is_privileged(db, u) THEN DOMAIN db.tasks
                   ELSE {t \in DOMAIN db.tasks :
                            \/ \E p \in DOMAIN db.projects :
                                  db.projects[p].owner_id = u /\ db.tasks[t].project_id = p
                            \/ \E r \in db.task_assignees : r[2] = u /\ r[1] = t}
        rows    == IF project_id # None
                   THEN {t \in visible : db.tasks[t].project_id = project_id}
                   ELSE visible
    IN  Answer(200, Page(rows, DefaultSkip, DefaultLimit), db)

read_task(db, u, task_id) ==
    IF ~Exists(db.tasks, task_id) THEN Raise(db, 404)
    ELSE IF ~is_privileged(db, u) /\ ~project_owned(db, u, task_id) /\ ~assigned(db, u, task_id)
         THEN Raise(db, 403)
    ELSE Answer(200, [task |-> db.tasks[task_id],
                      task_assignees |-> {r \in db.task_assignees : r[1] = task_id}], db)

\* task_data: a dict; "assignees" is popped (default []), the rest builds the row.
create_task(db, u, task_data) ==
    LET assignee_ids == IF "assignees" \in DOMAIN task_data THEN task_data.assignees
                        ELSE List(<<>>)
        id  == db.next_id.tasks
        row == [project_id |-> IF "project_id" \in DOMAIN task_data
                               THEN task_data.project_id ELSE None]
    IN  IF ~FkProject(db, row.project_id) THEN Raise(db, 500)
        ELSE LET db1 == [db EXCEPT !.tasks = Put(db.tasks, id, row), !.next_id.tasks = id + 1]
                 ins == InsertList(db1, db.task_assignees, id, assignee_ids)
             IN  IF assignee_ids.items = <<>> \/ ~assignee_ids.is_list THEN Answer(200, row, db1)
                 ELSE IF ~ins.ok THEN Answer(500, {}, db1)
                 ELSE Answer(200, row, [db1 EXCEPT !.task_assignees = ins.rows])

\* task_update: a dict; "assignees" is popped (default None: leave the rows
\* alone), every other key is set on the row and committed, and then the
\* junction rows are replaced on a second connection.
update_task(db, u, task_id, task_update) ==
    IF ~Exists(db.tasks, task_id) THEN Raise(db, 404)
    ELSE IF ~is_privileged(db, u) /\ ~project_owned(db, u, task_id) THEN Raise(db, 403)
    ELSE LET row == [k \in DOMAIN db.tasks[task_id] |->
                        IF k \in DOMAIN task_update THEN task_update[k]
                        ELSE db.tasks[task_id][k]]
         IN  IF ~FkProject(db, row.project_id) THEN Raise(db, 500)
             ELSE LET db1 == [db EXCEPT !.tasks = Put(db.tasks, task_id, row)]
                  IN  IF "assignees" \notin DOMAIN task_update THEN Answer(200, row, db1)
                      ELSE LET ins == InsertList(db1, DeleteRows(db.task_assignees, task_id),
                                                 task_id, task_update.assignees)
                           IN  IF ~ins.ok THEN Answer(500, {}, db1)
                               ELSE Answer(200, row, [db1 EXCEPT !.task_assignees = ins.rows])

\* A faulty delete_task: the junction rows are left behind.
delete_task_keep_rows(db, u, task_id) ==
    IF ~Exists(db.tasks, task_id) THEN Raise(db, 404)
    ELSE IF ~is_privileged(db, u) /\ ~project_owned(db, u, task_id) THEN Raise(db, 403)
    ELSE IF \E n \in DOMAIN db.notes : db.notes[n].task_id = task_id THEN Raise(db, 500)
    ELSE Answer(200, {}, [db EXCEPT !.tasks = Remove(db.tasks, task_id)])

\* The junction rows are deleted and committed on a connection of their own,
\* then the task row is deleted; a note that references the task stops that.
delete_task(db, u, task_id) ==
    IF ~Exists(db.tasks, task_id) THEN Raise(db, 404)
    ELSE IF ~is_privileged(db, u) /\ ~project_owned(db, u, task_id) THEN Raise(db, 403)
    ELSE LET db1 == [db EXCEPT !.task_assignees = DeleteRows(db.task_assignees, task_id)]
         IN  IF \E n \in DOMAIN db.notes : db.notes[n].task_id = task_id THEN Answer(500, {}, db1)
             ELSE Answer(200, {}, [db1 EXCEPT !.tasks = Remove(db.tasks, task_id)])

\* --------------------------------------------------------------- notes ----

\* task_id: the optional query filter.
list_notes(db, u, task_id) ==
    LET visible == IF is_privileged(db, u) THEN DOMAIN db.notes
                   ELSE {n \in DOMAIN db.notes : db.notes[n].user_id = u}
        rows    == IF task_id # None
                   THEN {n \in visible : db.notes[n].task_id = task_id}
                   ELSE visible
    IN  Answer(200, Page(rows, DefaultSkip, DefaultLimit), db)

\* A faulty read_note: a principal of the note's shared_with rows may read it.
read_note_shared(db, u, note_id) ==
    IF ~Exists(db.notes, note_id) THEN Raise(db, 404)
    ELSE IF /\ ~is_privileged(db, u)
            /\ db.notes[note_id].user_id # u
            /\ <<note_id, u>> \notin db.note_shares THEN Raise(db, 403)
    ELSE Answer(200, [note |-> db.notes[note_id],
                      shared_with |-> {r[2] : r \in {s \in db.note_shares : s[1] = note_id}}], db)

read_note(db, u, note_id) ==
    IF ~Exists(db.notes, note_id) THEN Raise(db, 404)
    ELSE IF ~is_privileged(db, u) /\ db.notes[note_id].user_id # u THEN Raise(db, 403)
    ELSE Answer(200, [note |-> db.notes[note_id],
                      shared_with |-> {r[2] : r \in {s \in db.note_shares : s[1] = note_id}}], db)

\* note_data: a dict; "shared_with" is popped (default []), user_id defaults
\* to the caller when the key is absent.
create_note(db, u, note_data) ==
    LET shared_user_ids == IF "shared_with" \in DOMAIN note_data
                           THEN note_data.shared_with ELSE List(<<>>)
        id  == db.next_id.notes
        row == [user_id |-> IF "user_id" \in DOMAIN note_data THEN note_data.user_id ELSE u,
                task_id |-> IF "task_id" \in DOMAIN note_data THEN note_data.task_id ELSE None]
    IN  IF ~FkUser(db, row.user_id) \/ ~FkTask(db, row.task_id) THEN Raise(db, 500)
        ELSE LET db1 == [db EXCEPT !.notes = Put(db.notes, id, row), !.next_id.notes = id + 1]
                 ins == InsertList(db1, db.note_shares, id, shared_user_ids)
             IN  IF shared_user_ids.items = <<>> \/ ~shared_user_ids.is_list
                 THEN Answer(200, row, db1)
                 ELSE IF ~ins.ok THEN Answer(500, {}, db1)
                 ELSE Answer(200, row, [db1 EXCEPT !.note_shares = ins.rows])

\* note_update: a dict; "shared_with" is popped (default None: leave the rows
\* alone), every other key is set on the row and committed, and then the
\* junction rows are replaced on a second connection.
update_note(db, u, note_id, note_update) ==
    IF ~Exists(db.notes, note_id) THEN Raise(db, 404)
    ELSE IF ~is_privileged(db, u) /\ db.notes[note_id].user_id # u THEN Raise(db, 403)
    ELSE LET row == [k \in DOMAIN db.notes[note_id] |->
                        IF k \in DOMAIN note_update THEN note_update[k]
                        ELSE db.notes[note_id][k]]
         IN  IF ~FkUser(db, row.user_id) \/ ~FkTask(db, row.task_id) THEN Raise(db, 500)
             ELSE LET db1 == [db EXCEPT !.notes = Put(db.notes, note_id, row)]
                  IN  IF "shared_with" \notin DOMAIN note_update THEN Answer(200, row, db1)
                      ELSE LET ins == InsertList(db1, DeleteRows(db.note_shares, note_id),
                                                 note_id, note_update.shared_with)
                           IN  IF ~ins.ok THEN Answer(500, {}, db1)
                               ELSE Answer(200, row, [db1 EXCEPT !.note_shares = ins.rows])

\* The junction rows are deleted and committed on a connection of their own,
\* then the note row is deleted; nothing references a note.
delete_note(db, u, note_id) ==
    IF ~Exists(db.notes, note_id) THEN Raise(db, 404)
    ELSE IF ~is_privileged(db, u) /\ db.notes[note_id].user_id # u THEN Raise(db, 403)
    ELSE Answer(200, {}, [db EXCEPT !.note_shares = DeleteRows(db.note_shares, note_id),
                                    !.notes = Remove(db.notes, note_id)])

\* --------------------------------------------------------------- users ----

\* A row that holds a foreign key to this user and that the ORM does not
\* remove with it (note_shares rows go with the user: User.shared_notes is a
\* many-to-many relationship through the link table).
Referenced(db, user_id) ==
    \/ \E p \in DOMAIN db.projects : db.projects[p].owner_id = user_id
    \/ \E d \in DOMAIN db.decisions : db.decisions[d].user_id = user_id
    \/ \E e \in DOMAIN db.events : db.events[e].user_id = user_id
    \/ \E n \in DOMAIN db.notes : db.notes[n].user_id = user_id
    \/ \E r \in db.task_assignees : r[2] = user_id

\* A faulty DeleteUserRow: no foreign key stops the removal of the row.
DeleteUserRow_unchecked(db, user_id) ==
    Answer(200, {}, [db EXCEPT !.users = Remove(db.users, user_id),
                               !.note_shares = {r \in db.note_shares : r[2] # user_id}])

\* db.delete(user); db.commit()
DeleteUserRow(db, user_id) ==
    IF Referenced(db, user_id) THEN Raise(db, 500)
    ELSE Answer(200, {}, [db EXCEPT !.users = Remove(db.users, user_id),
                                    !.note_shares = {r \in db.note_shares : r[2] # user_id}])

\* A faulty get_current_active_superuser: every principal passes.
get_current_active_superuser_anyone(db, u) == TRUE

\* Depends(get_current_active_superuser)
get_current_active_superuser(db, u) == is_privileged(db, u)

\* A faulty delete_user: no test for the caller's own record.
delete_user_any(db, u, user_id) ==
    IF ~get_current_active_superuser(db, u) THEN Raise(db, 403)
    ELSE IF ~Exists(db.users, user_id) THEN Raise(db, 404)
    ELSE DeleteUserRow(db, user_id)

\* DELETE /api/v1/users/{user_id}
delete_user(db, u, user_id) ==
    IF ~get_current_active_superuser(db, u) THEN Raise(db, 403)
    ELSE IF ~Exists(db.users, user_id) THEN Raise(db, 404)
    ELSE IF user_id = u THEN Raise(db, 400)
    ELSE DeleteUserRow(db, user_id)

\* DELETE /users/{user_id} of the web views (cookie principal).
delete_user_route(db, u, user_id) ==
    IF "super_admin" \notin db.users[u].roles THEN Raise(db, 403)
    ELSE IF ~Exists(db.users, user_id) THEN Raise(db, 404)
    ELSE IF user_id = u THEN Raise(db, 400)
    ELSE DeleteUserRow(db, user_id)

\* ---------------------------------------------------- users and auth ----

\* E-mail addresses, numbered: as many as there are user ids.
Emails == 1..NumUsers

\* get_password_hash: what is stored is never the password that was sent.
get_password_hash(password) == <<"bcrypt", password>>

\* select(User).where(User.email == email).first()
ByEmail(db, email) == {v \in DOMAIN db.users : db.users[v].email = email}

\* The unique index on users.email: what a commit of row id with this email
\* has to satisfy.
UniqueEmail(db, id, email) ==
    \A v \in DOMAIN db.users \ {id} : db.users[v].email # email

\* A field of a request body, None when the request did not set it.
Field(body, k) == IF k \in DOMAIN body THEN body[k] ELSE None

\* db.add(row); db.commit() of a users row.
SaveUser(db, id, row) ==
    IF ~UniqueEmail(db, id, row.email) THEN Raise(db, 500)
    ELSE Answer(200, [id |-> id, row |-> row],
                [db EXCEPT !.users = Put(db.users, id, row),
                           !.next_id.users = IF id = db.next_id.users THEN id + 1
                                             ELSE db.next_id.users])

\* POST /api/v1/auth/register
register_user(db, user_in) ==
    IF ByEmail(db, user_in.email) # {} THEN Raise(db, 400)
    ELSE SaveUser(db, db.next_id.users,
                  [email |-> user_in.email,
                   password |-> get_password_hash(user_in.password),
                   full_name |-> Field(user_in, "full_name"),
                   roles |-> {"user"},
                   image |-> None,
                   avatar_url |-> None])

\* The row create_user and create_user_admin build:
\* roles=user_in.roles or [UserRole.USER].
NewUser(user_in) ==
    [email |-> user_in.email,
     password |-> get_password_hash(user_in.password),
     full_name |-> Field(user_in, "full_name"),
     roles |-> IF "roles" \in DOMAIN user_in /\ user_in.roles # {}
               THEN user_in.roles ELSE {"user"},
     image |-> Field(user_in, "image"),
     avatar_url |-> Field(user_in, "avatar_url")]

\* GET /api/v1/users
read_users(db, u) ==
    IF ~get_current_active_superuser(db, u) THEN Raise(db, 403)
    ELSE Answer(200, Page(DOMAIN db.users, DefaultSkip, DefaultLimit), db)

\* POST /api/v1/users
create_user(db, u, user_in) ==
    IF ~get_current_active_superuser(db, u) THEN Raise(db, 403)
    ELSE IF ByEmail(db, user_in.email) # {} THEN Raise(db, 400)
    ELSE SaveUser(db, db.next_id.users, NewUser(user_in))

\* GET /api/v1/users/me
read_user_me(db, u) == Answer(200, [id |-> u, row |-> db.users[u]], db)

\* A faulty update_user_me: every field the body set is stored.
update_user_me_any_field(db, u, user_in) ==
    SaveUser(db, u, [k \in DOMAIN db.users[u] |->
                        IF k \notin DOMAIN user_in THEN db.users[u][k]
                        ELSE IF k = "password" THEN get_password_hash(user_in[k])
                        ELSE user_in[k]])

\* PUT /api/v1/users/me: password, full_name, email and avatar_url are set
\* when the body carries them; no other field of the body is looked at.
update_user_me(db, u, user_in) ==
    LET cur == db.users[u]
        row == [cur EXCEPT
                   !.password = IF Field(user_in, "password") # None
                                THEN get_password_hash(user_in.password) ELSE @,
                   !.full_name = IF Field(user_in, "full_name") # None
                                 THEN user_in.full_name ELSE @,
                   !.email = IF Field(user_in, "email") # None
                             THEN user_in.email ELSE @,
                   !.avatar_url = IF Field(user_in, "avatar_url") # None
                                  THEN user_in.avatar_url ELSE @]
    IN  SaveUser(db, u, row)

\* GET /api/v1/users/{user_id}.  db.get gives None for an id that is not
\* stored; a privileged caller then returns None, which the response model
\* UserRead rejects: 500.
read_user_by_id(db, u, user_id) ==
    IF Exists(db.users, user_id) /\ user_id = u
    THEN Answer(200, [id |-> user_id, row |-> db.users[user_id]], db)
    ELSE IF ~is_privileged(db, u) THEN Raise(db, 400)
    ELSE IF ~Exists(db.users, user_id) THEN Raise(db, 500)
    ELSE Answer(200, [id |-> user_id, row |-> db.users[user_id]], db)

\* PUT /api/v1/users/{user_id}: every field the body set
\* (model_dump(exclude_unset=True)) is stored, the password hashed.
update_user(db, u, user_id, user_in) ==
    IF ~get_current_active_superuser(db, u) THEN Raise(db, 403)
    ELSE IF ~Exists(db.users, user_id) THEN Raise(db, 404)
    ELSE SaveUser(db, user_id,
                  [k \in DOMAIN db.users[user_id] |->
                      IF k \notin DOMAIN user_in THEN db.users[user_id][k]
                      ELSE IF k = "password" THEN get_password_hash(user_in[k])
                      ELSE user_in[k]])

\* POST /api/v1/user-admin/create
create_user_admin(db, u, user_in) ==
    IF ~get_current_active_superuser(db, u) THEN Raise(db, 403)
    ELSE IF ByEmail(db, user_in.email) # {} THEN Raise(db, 400)
    ELSE SaveUser(db, db.next_id.users, NewUser(user_in))

\* PATCH /api/v1/user-admin/{user_id}: as update_user; the password is hashed
\* when it is not empty.
update_user_admin(db, u, user_id, user_in) ==
    IF ~get_current_active_superuser(db, u) THEN Raise(db, 403)
    ELSE IF ~Exists(db.users, user_id) THEN Raise(db, 404)
    ELSE SaveUser(db, user_id,
                  [k \in DOMAIN db.users[user_id] |->
                      IF k \notin DOMAIN user_in THEN db.users[user_id][k]
                      ELSE IF k = "password" /\ user_in[k] # None
                           THEN get_password_hash(user_in[k])
                      ELSE user_in[k]])

\* inspector.get_columns("users"), as far as the rows here hold them.
UserColumns == {"id", "email", "password", "full_name", "roles", "image", "avatar_url"}

\* PATCH /api/v1/admin-db/tables/{table_name}/{pk_column}/{pk_value}, for the
\* users table: UPDATE users SET ... WHERE pk_column = pk_value on a raw
\* connection.  The 404 for "no row" is raised inside the try block and
\* leaves as 500, as does a rejected statement.
update_generic_table_row(db, u, table_name, pk_column, pk_value, update_data) ==
    IF ~get_current_active_superuser(db, u) THEN Raise(db, 403)
    ELSE IF table_name # "users" THEN Raise(db, 404)
    ELSE IF pk_column \notin UserColumns THEN Raise(db, 400)
    ELSE IF \E col \in DOMAIN update_data : col \notin UserColumns THEN Raise(db, 400)
    ELSE IF pk_column # "id" \/ ~Exists(db.users, pk_value) THEN Raise(db, 500)
    ELSE LET row == [k \in DOMAIN db.users[pk_value] |->
                        IF k \in DOMAIN update_data THEN update_data[k]
                        ELSE db.users[pk_value][k]]
         IN  IF ~UniqueEmail(db, pk_value, row.email) THEN Raise(db, 500)
             ELSE Answer(200, {}, [db EXCEPT !.users = Put(db.users, pk_value, row)])

\* A JWT: whether its signature verifies under SECRET_KEY, whether it has
\* expired, and its "sub" claim (None when it has none).
Tokens == [kind : {"jwt"}, signed : BOOLEAN, expired : BOOLEAN, sub : Emails \cup {None}]

\* The marker "Bearer " in front of a token in the cookie login sets.
Marker == [kind |-> "marker"]

\* An Optional[str] of a request: None, or a text made of markers and tokens
\* (the empty text is the empty string).
NoToken == [kind |-> "none"]
Str(text) == [kind |-> "str", text |-> text]

\* reusable_oauth2 (auto_error=False): the parameter of an Authorization
\* header of scheme bearer, None without such a header.
HeaderTokens == {NoToken, Str(<<>>)} \cup {Str(<<t>>) : t \in Tokens}

\* request.cookies.get("access_token"): None without the cookie, else its
\* value, a token with or without the marker in front.
Cookies ==
    {NoToken, Str(<<>>), Str(<<Marker>>)}
        \cup {Str(<<t>>) : t \in Tokens} \cup {Str(<<Marker, t>>) : t \in Tokens}

\* not token
Falsy(token) == token = NoToken \/ token.text = <<>>

\* token.startswith("Bearer ")
StartsWithBearer(token) == token.text # <<>> /\ Head(token.text) = Marker

\* token.replace("Bearer ", "")
StripBearer(token) == Str(SelectSeq(token.text, LAMBDA piece : piece # Marker))

\* jwt.decode(token, SECRET_KEY, algorithms): JWTError for a text that is no
\* JWT, for a signature that does not verify and for an expired token.
jwt_decode(token) ==
    IF Len(token.text) = 1 /\ token.text[1] # Marker
    THEN [ok |-> token.text[1].signed /\ ~token.text[1].expired, sub |-> token.text[1].sub]
    ELSE [ok |-> FALSE, sub |-> None]

\* TokenData(email=payload.get("sub")): the claims must carry a subject.
TokenData(sub) == [ok |-> sub # None, email |-> sub]

\* A faulty get_current_user: the cookie is not looked at.
get_current_user_header_only(db, header, cookie) ==
    IF Falsy(header) THEN Raise(db, 401)
    ELSE LET payload    == jwt_decode(header)
             token_data == TokenData(payload.sub)
         IN  IF ~payload.ok \/ ~token_data.ok THEN Raise(db, 403)
             ELSE IF ByEmail(db, token_data.email) = {} THEN Raise(db, 404)
             ELSE Answer(200, CHOOSE v \in ByEmail(db, token_data.email) : TRUE, db)

\* deps.get_current_user: the body of a 200 answer is the id of the user
\* returned.
get_current_user(db, header, cookie) ==
    LET fallback == IF ~Falsy(cookie) /\ StartsWithBearer(cookie)
                    THEN StripBearer(cookie) ELSE cookie
        token    == IF Falsy(header) THEN fallback ELSE header
    IN  IF Falsy(token) THEN Raise(db, 401)
        ELSE LET payload    == jwt_decode(token)
                 token_data == TokenData(payload.sub)
             IN  IF ~payload.ok \/ ~token_data.ok THEN Raise(db, 403)
                 ELSE IF ByEmail(db, token_data.email) = {} THEN Raise(db, 404)
                 ELSE Answer(200, CHOOSE v \in ByEmail(db, token_data.email) : TRUE, db)

\* ------------------------------------------------------------- actions ----

\* The principals get_current_user resolves: the stored users.
Principals == DOMAIN users

\* The rows created so far, over all resource tables.
RowsCreated ==
    (next_id.projects - 1) + (next_id.decisions - 1) + (next_id.events - 1)
    + (next_id.tasks - 1) + (next_id.notes - 1)
MayCreate == RowsCreated < MaxRows

\* The handler's commits become the stored tables; its status code is the
\* response the client receives.
Store(r) ==
    /\ users' = r.db.users
    /\ projects' = r.db.projects
    /\ decisions' = r.db.decisions
    /\ events' = r.db.events
    /\ tasks' = r.db.tasks
    /\ task_assignees' = r.db.task_assignees
    /\ notes' = r.db.notes
    /\ note_shares' = r.db.note_shares
    /\ next_id' = r.db.next_id
    /\ response' = r.status

\* A request that reaches nothing but the tables.
Commit(r) ==
    /\ Store(r)
    /\ UNCHANGED <<issued, USE_SSH, _tunnel, _engine, threads, built, returned, requests>>

\* The ids a request names in a table: those allocated so far and the first
\* one that is not (an id that never existed).
Ids(table) == {i \in RowIds : i <= next_id[table]}

\* Request bodies.  A dict is a function whose domain is the keys sent; the
\* empty dict is <<>>.

\* assignees / shared_with: lists of user ids, repeats and unknown ids
\* included, or a value that is no list.
MemberLists == UNION {[1..n -> UserIds] : n \in 0..MaxLen}
MemberValues == {List(l) : l \in MemberLists} \cup {NotAList}

\* Project / Decision / EventCreate bodies: the owner column set or left unset.
OwnerBodies(col) == {[c \in {col} |-> o] : o \in UserIds \cup {None}}
\* Update dicts of a project, decision or event.
OwnerUpdates(col) == {<<>>} \cup {[c \in {col} |-> o] : o \in UserIds}

TaskCreateBodies ==
    {[project_id |-> p, assignees |-> l] : p \in Ids("projects") \cup {None}, l \in MemberValues}
TaskUpdates ==
    {<<>>}
    \cup {[project_id |-> p] : p \in Ids("projects") \cup {None}}
    \cup {[assignees |-> l] : l \in MemberValues}
    \cup {[project_id |-> p, assignees |-> l] : p \in Ids("projects") \cup {None}, l \in MemberValues}

NoteCreateBodies ==
    {[task_id |-> t, shared_with |-> l] : t \in Ids("tasks") \cup {None}, l \in MemberValues}
    \cup {[user_id |-> o] : o \in UserIds}
NoteUpdates ==
    {<<>>}
    \cup {[user_id |-> o] : o \in UserIds}
    \cup {[shared_with |-> l] : l \in MemberValues}
    \cup {[user_id |-> o, shared_with |-> l] : o \in UserIds, l \in MemberValues}

ListProjects == \E u \in Principals : Commit(list_projects(DB, u))
ReadProject ==
    \E u \in Principals, id \in Ids("projects") : Commit(read_project(DB, u, id))
CreateProject ==
    /\ MayCreate
    /\ \E u \in Principals, b \in OwnerBodies("owner_id") :
          Commit(create_project(DB, u, b))
UpdateProject ==
    \E u \in Principals, id \in Ids("projects"), d \in OwnerUpdates("owner_id") :
        Commit(update_project(DB, u, id, d))
DeleteProject ==
    \E u \in Principals, id \in Ids("projects") : Commit(delete_project(DB, u, id))

ListDecisions == \E u \in Principals : Commit(list_decisions(DB, u))
ReadDecision ==
    \E u \in Principals, id \in Ids("decisions") : Commit(read_decision(DB, u, id))
CreateDecision ==
    /\ MayCreate
    /\ \E u \in Principals, b \in OwnerBodies("user_id") :
          Commit(create_decision(DB, u, b))
UpdateDecision ==
    \E u \in Principals, id \in Ids("decisions"), d \in OwnerUpdates("user_id") :
        Commit(update_decision(DB, u, id, d))
DeleteDecision ==
    \E u \in Principals, id \in Ids("decisions") : Commit(delete_decision(DB, u, id))

ListEvents == \E u \in Principals : Commit(list_events(DB, u))
ReadEvent ==
    \E u \in Principals, id \in Ids("events") : Commit(read_event(DB, u, id))
CreateEvent ==
    /\ MayCreate
    /\ \E u \in Principals, b \in OwnerBodies("user_id") :
          Commit(create_event(DB, u, b))
UpdateEvent ==
    \E u \in Principals, id \in Ids("events"), d \in OwnerUpdates("user_id") :
        Commit(update_event(DB, u, id, d))
DeleteEvent ==
    \E u \in Principals, id \in Ids("events") : Commit(delete_event(DB, u, id))

ListTasks ==
    \E u \in Principals, f \in Ids("projects") \cup {None} : Commit(list_tasks(DB, u, f))
ReadTask == \E u \in Principals, id \in Ids("tasks") : Commit(read_task(DB, u, id))
CreateTask ==
    /\ MayCreate
    /\ \E u \in Principals, b \in TaskCreateBodies : Commit(create_task(DB, u, b))
UpdateTask ==
    \E u \in Principals, id \in Ids("tasks"), d \in TaskUpdates :
        Commit(update_task(DB, u, id, d))
DeleteTask == \E u \in Principals, id \in Ids("tasks") : Commit(delete_task(DB, u, id))

ListNotes ==
    \E u \in Principals, f \in Ids("tasks") \cup {None} : Commit(list_notes(DB, u, f))
ReadNote == \E u \in Principals, id \in Ids("notes") : Commit(read_note(DB, u, id))
CreateNote ==
    /\ MayCreate
    /\ \E u \in Principals, b \in NoteCreateBodies : Commit(create_note(DB, u, b))
UpdateNote ==
    \E u \in Principals, id \in Ids("notes"), d \in NoteUpdates :
        Commit(update_note(DB, u, id, d))
DeleteNote == \E u \in Principals, id \in Ids("notes") : Commit(delete_note(DB, u, id))

\* A set of request bodies, and each of them with field k set to a value of V.
Ext(S, k, V) ==
    S \cup {[j \in DOMAIN d \cup {k} |-> IF j = k THEN v ELSE d[j]] : d \in S, v \in V}

\* Role lists a body carries (UserRole values), the empty list among them.
RoleSets == {{}, {"user"}, {"admin"}}
\* A password, a name, a URL.
Texts == {1}

\* UserRegister: email, password, full_name.
UserRegisterBodies ==
    Ext({[email |-> e, password |-> p] : e \in Emails, p \in Texts}, "full_name", Texts)

\* UserCreate: email and password are required.
UserCreateBodies ==
    Ext(Ext(Ext(Ext({[email |-> e, password |-> p] : e \in Emails, p \in Texts},
                    "roles", RoleSets), "full_name", Texts), "image", Texts),
        "avatar_url", Texts)

\* UserUpdate: every field is optional.
UserUpdates ==
    Ext(Ext(Ext(Ext(Ext(Ext({<<>>}, "email", Emails), "roles", RoleSets),
                    "password", Texts), "full_name", Texts), "image", Texts),
        "avatar_url", Texts)

\* The bodies the actions send: a create with email, password and at most
\* roles, an update that sets at most one of email and roles.
UserRegisters == {d \in UserRegisterBodies : DOMAIN d = {"email", "password"}}
UserCreates == {d \in UserCreateBodies : DOMAIN d \subseteq {"email", "password", "roles"}}
UserEdits ==
    {d \in UserUpdates : DOMAIN d \subseteq {"email", "roles"} /\ Cardinality(DOMAIN d) <= 1}

\* update_data of the generic row update: columns of users, or a column the
\* table does not have.
GenericUpdates ==
    Ext(Ext(Ext({<<>>}, "email", Emails), "roles", RoleSets), "full_name", Texts)
        \cup {[no_such_column |-> 1]}
GenericEdits ==
    {d \in GenericUpdates : Cardinality(DOMAIN d) = 1 /\ "full_name" \notin DOMAIN d}
TableNames == {"users", "no_such_table"}
PkColumns == {"id", "no_such_column"}

\* A new user gets an id that was never used; NumUsers ids in all.
MayCreateUser == next_id.users <= NumUsers

RegisterUser ==
    /\ MayCreateUser
    /\ \E d \in UserRegisters : Commit(register_user(DB, d))
ReadUsers == \E u \in Principals : Commit(read_users(DB, u))
CreateUser ==
    /\ MayCreateUser
    /\ \E u \in Principals, d \in UserCreates : Commit(create_user(DB, u, d))
ReadUserMe == \E u \in Principals : Commit(read_user_me(DB, u))
UpdateUserMe ==
    \E u \in Principals, d \in UserEdits : Commit(update_user_me(DB, u, d))
ReadUserById ==
    \E u \in Principals, id \in UserIds : Commit(read_user_by_id(DB, u, id))
UpdateUser ==
    \E u \in Principals, id \in UserIds, d \in UserEdits :
        Commit(update_user(DB, u, id, d))
CreateUserAdmin ==
    /\ MayCreateUser
    /\ \E u \in Principals, d \in UserCreates : Commit(create_user_admin(DB, u, d))
UpdateUserAdmin ==
    \E u \in Principals, id \in UserIds, d \in UserEdits :
        Commit(update_user_admin(DB, u, id, d))
UpdateGenericTableRow ==
    \E u \in Principals, t \in TableNames, c \in PkColumns, id \in UserIds,
       d \in GenericEdits :
        Commit(update_generic_table_row(DB, u, t, c, id, d))
GetCurrentUser ==
    LET resolved == {get_current_user(DB, header, cookie) :
                        header \in HeaderTokens, cookie \in Cookies}
    IN  \E r \in resolved : Commit(r)
DeleteUser ==
    \E u \in Principals, id \in UserIds : Commit(delete_user(DB, u, id))
DeleteUserRoute ==
    \E u \in Principals, id \in UserIds : Commit(delete_user_route(DB, u, id))

\* The requests that run side by side, one worker thread each.
NumRequests == 2
Workers == 1..NumRequests

\* A connection with no transaction open.
NoTx == [open |-> FALSE, deleted |-> {}, inserted |-> {}]

\* A worker that has no request yet.
NoRequest ==
    [kind |-> "none", op |-> "none", u |-> None, rid |-> None, ids |-> <<>>,
     pc |-> "start", i |-> 0, tx |-> NoTx, status |-> None]
NoRequests == requests = [w \in Workers |-> NoRequest]

\* The threads that call get_engine and the calls each of them makes.
NumThreads == 2
MaxCalls == 2
Threads == 1..NumThreads

\* The module app.db.session once imported: line 43 has called get_engine
\* with the default settings (USE_SSH False), and no call is under way.
EngineImported ==
    /\ USE_SSH = FALSE
    /\ _tunnel = None
    /\ _engine = 1
    /\ threads = [t \in Threads |-> [pc |-> "idle", calls |-> 0]]
    /\ built = [engines |-> 1, tunnels |-> 0, starts |-> <<>>]
    /\ returned = {1}

\* The first user (scripts/create_first_user.py), an administrator and
\* registered users with the default role.
FirstUserRoles == {"user", "staff", "manager", "super_admin"}

\* A stored user as scripts/create_first_user.py and the create handlers
\* leave it.
StoredUser(email, full_name, roles) ==
    [email |-> email, password |-> get_password_hash(1), full_name |-> full_name,
     roles |-> roles, image |-> None, avatar_url |-> None]

Init ==
    /\ users = [u \in UserIds |->
                   IF u = 1 THEN StoredUser(u, 1, FirstUserRoles)
                   ELSE StoredUser(u, None, IF u = 2 THEN {"admin"} ELSE {"user"})]
    /\ projects = <<>>
    /\ decisions = <<>>
    /\ events = <<>>
    /\ tasks = <<>>
    /\ task_assignees = {}
    /\ notes = <<>>
    /\ note_shares = {}
    /\ next_id = [projects |-> 1, decisions |-> 1, events |-> 1, tasks |-> 1, notes |-> 1,
                  users |-> NumUsers + 1]
    /\ response = None
    /\ issued = {}
    /\ EngineImported
    /\ NoRequests

Next ==
    \/ ListProjects \/ ReadProject \/ CreateProject \/ UpdateProject \/ DeleteProject
    \/ ListDecisions \/ ReadDecision \/ CreateDecision \/ UpdateDecision \/ DeleteDecision
    \/ ListEvents \/ ReadEvent \/ CreateEvent \/ UpdateEvent \/ DeleteEvent
    \/ ListTasks \/ ReadTask \/ CreateTask \/ UpdateTask \/ DeleteTask
    \/ ListNotes \/ ReadNote \/ CreateNote \/ UpdateNote \/ DeleteNote
    \/ DeleteUser \/ DeleteUserRoute

Spec == Init /\ [][Next]_vars

\* The user table and principal resolution on their own: the first user is
\* the only one stored, and every other user comes from a request.
UserInit ==
    /\ users = [u \in {1} |-> StoredUser(1, 1, FirstUserRoles)]
    /\ projects = <<>>
    /\ decisions = <<>>
    /\ events = <<>>
    /\ tasks = <<>>
    /\ task_assignees = {}
    /\ notes = <<>>
    /\ note_shares = {}
    /\ next_id = [projects |-> 1, decisions |-> 1, events |-> 1, tasks |-> 1, notes |-> 1,
                  users |-> 2]
    /\ response = None
    /\ issued = {}
    /\ EngineImported
    /\ NoRequests

UserNext ==
    \/ RegisterUser \/ GetCurrentUser
    \/ ReadUsers \/ CreateUser \/ ReadUserMe \/ UpdateUserMe \/ ReadUserById
    \/ UpdateUser \/ DeleteUser \/ CreateUserAdmin \/ UpdateUserAdmin
    \/ UpdateGenericTableRow

UserSpec == UserInit /\ [][UserNext]_vars

\* -------------------------------------------------------------- claims ----

\* The vocabulary of the claims, read off the stored tables.
Privileged(u) == users[u].roles \cap {"admin", "super_admin"} # {}
Regular == {u \in Principals : ~Privileged(u)}
Admins == {u \in Principals : Privileged(u)}
RowsOf(rows, rid) == {r \in rows : r[1] = rid}
ListRows(rid, ids) == {<<rid, ids[i]>> : i \in DOMAIN ids}
OwnsParent(u, t) ==
    tasks[t].project_id \in DOMAIN projects /\ projects[tasks[t].project_id].owner_id = u
Member(u, t) == OwnsParent(u, t) \/ <<t, u>> \in task_assignees
Denied(r) == r.status = 403 /\ r.db = DB

\* Update bodies that name stored rows only, each member once.
NoRepeat(ids) == \A i, j \in DOMAIN ids : ids[i] = ids[j] => i = j
StoredMembers(d, key) ==
    key \in DOMAIN d =>
        NoRepeat(d[key].items) /\ \A i \in DOMAIN d[key].items : d[key].items[i] \in DOMAIN users
StoredOwner(col) == {d \in OwnerUpdates(col) : col \in DOMAIN d => d[col] \in DOMAIN users}
StoredTaskUpdates ==
    {d \in TaskUpdates :
        /\ "project_id" \in DOMAIN d => d.project_id \in DOMAIN projects \cup {None}
        /\ StoredMembers(d, "assignees")}
StoredNoteUpdates ==
    {d \in NoteUpdates :
        /\ "user_id" \in DOMAIN d => d.user_id \in DOMAIN users
        /\ StoredMembers(d, "shared_with")}


\* C1 (ownership gate, Project and Decision).  A non-privileged principal that
\* is not R's owner is answered Forbidden on read, update and delete, R is left
\* as it was and is absent from the principal's list; for the non-privileged
\* owner, list (R included), read, update and delete succeed.  The updates
\* are those whose body names stored rows only.
C1_OwnershipGate ==
    \A u \in Regular :
        /\ \A id \in DOMAIN projects :
              IF projects[id].owner_id # u
              THEN /\ id \notin list_projects(DB, u).body
                   /\ read_project(DB, u, id).status = 403
                   /\ \A d \in StoredOwner("owner_id") : Denied(update_project(DB, u, id, d))
                   /\ Denied(delete_project(DB, u, id))
              ELSE /\ id \in list_projects(DB, u).body
                   /\ read_project(DB, u, id).status = 200
                   /\ \A d \in StoredOwner("owner_id") :
                         update_project(DB, u, id, d).status = 200
                   /\ delete_project(DB, u, id).status = 200
        /\ \A id \in DOMAIN decisions :
              IF decisions[id].user_id # u
              THEN /\ id \notin list_decisions(DB, u).body
                   /\ read_decision(DB, u, id).status = 403
                   /\ \A d \in StoredOwner("user_id") : Denied(update_decision(DB, u, id, d))
                   /\ Denied(delete_decision(DB, u, id))
              ELSE /\ id \in list_decisions(DB, u).body
                   /\ read_decision(DB, u, id).status = 200
                   /\ \A d \in StoredOwner("user_id") :
                         update_decision(DB, u, id, d).status = 200
                   /\ delete_decision(DB, u, id).status = 200

\* C1, amended: as C1, but the owner's delete of a project succeeds unless a
\* task still references the project; then it is answered with a server error
\* and nothing changes.
C1_OwnershipGateStored ==
    \A u \in Regular :
        /\ \A id \in DOMAIN projects :
              IF projects[id].owner_id # u
              THEN /\ id \notin list_projects(DB, u).body
                   /\ read_project(DB, u, id).status = 403
                   /\ \A d \in StoredOwner("owner_id") : Denied(update_project(DB, u, id, d))
                   /\ Denied(delete_project(DB, u, id))
              ELSE /\ id \in list_projects(DB, u).body
                   /\ read_project(DB, u, id).status = 200
                   /\ \A d \in StoredOwner("owner_id") :
                         update_project(DB, u, id, d).status = 200
                   /\ LET r == delete_project(DB, u, id)
                      IN  IF \E t \in DOMAIN tasks : tasks[t].project_id = id
                          THEN r.status = 500 /\ r.db = DB
                          ELSE r.status = 200 /\ id \notin DOMAIN r.db.projects
        /\ \A id \in DOMAIN decisions :
              IF decisions[id].user_id # u
              THEN /\ id \notin list_decisions(DB, u).body
                   /\ read_decision(DB, u, id).status = 403
                   /\ \A d \in StoredOwner("user_id") : Denied(update_decision(DB, u, id, d))
                   /\ Denied(delete_decision(DB, u, id))
              ELSE /\ id \in list_decisions(DB, u).body
                   /\ read_decision(DB, u, id).status = 200
                   /\ \A d \in StoredOwner("user_id") :
                         update_decision(DB, u, id, d).status = 200
                   /\ delete_decision(DB, u, id).status = 200

\* C1: a non-privileged owner's project is referenced by a task; the owner
\* reads and updates the project, and its delete of it ends in a server error.
C1_OwnerDeleteRejected ==
    \E u \in Regular, id \in DOMAIN projects :
        /\ projects[id].owner_id = u
        /\ \E t \in DOMAIN tasks : tasks[t].project_id = id
        /\ read_project(DB, u, id).status = 200
        /\ update_project(DB, u, id, <<>>).status = 200
        /\ delete_project(DB, u, id).status = 500

C3_TaskDualPath ==
    \A u \in Regular, t \in DOMAIN tasks :
        /\ IF Member(u, t)
           THEN read_task(DB, u, t).status = 200 /\ t \in list_tasks(DB, u, None).body
           ELSE read_task(DB, u, t).status = 403 /\ t \notin list_tasks(DB, u, None).body
        /\ tasks[t].project_id = None =>
              (read_task(DB, u, t).status = 200 <=> <<t, u>> \in task_assignees)

\* C3: a non-privileged principal is assigned to a task without a project and
\* reads it, and is no assignee of a second task and is refused.
C3_SeenAndHidden ==
    \E u \in Regular, t \in DOMAIN tasks, o \in DOMAIN tasks :
        /\ tasks[t].project_id = None /\ <<t, u>> \in task_assignees
        /\ read_task(DB, u, t).status = 200
        /\ ~Member(u, o) /\ read_task(DB, u, o).status = 403

C5_ExistenceBeforePermission ==
    \A u \in Principals, id \in RowIds :
        /\ IF id \notin DOMAIN projects
           THEN /\ read_project(DB, u, id).status = 404
                /\ \A d \in OwnerUpdates("owner_id") : update_project(DB, u, id, d).status = 404
                /\ delete_project(DB, u, id).status = 404
           ELSE /\ read_project(DB, u, id).status # 404
                /\ \A d \in OwnerUpdates("owner_id") : update_project(DB, u, id, d).status # 404
                /\ delete_project(DB, u, id).status # 404
                /\ (~Privileged(u) /\ projects[id].owner_id # u) =>
                      /\ read_project(DB, u, id).status = 403
                      /\ \A d \in OwnerUpdates("owner_id") :
                            update_project(DB, u, id, d).status = 403
                      /\ delete_project(DB, u, id).status = 403
        /\ IF id \notin DOMAIN decisions
           THEN /\ read_decision(DB, u, id).status = 404
                /\ \A d \in OwnerUpdates("user_id") : update_decision(DB, u, id, d).status = 404
                /\ delete_decision(DB, u, id).status = 404
           ELSE /\ read_decision(DB, u, id).status # 404
                /\ \A d \in OwnerUpdates("user_id") : update_decision(DB, u, id, d).status # 404
                /\ delete_decision(DB, u, id).status # 404
                /\ (~Privileged(u) /\ decisions[id].user_id # u) =>
                      /\ read_decision(DB, u, id).status = 403
                      /\ \A d \in OwnerUpdates("user_id") :
                            update_decision(DB, u, id, d).status = 403
                      /\ delete_decision(DB, u, id).status = 403
        /\ IF id \notin DOMAIN events
           THEN /\ read_event(DB, u, id).status = 404
                /\ \A d \in OwnerUpdates("user_id") : update_event(DB, u, id, d).status = 404
                /\ delete_event(DB, u, id).status = 404
           ELSE /\ read_event(DB, u, id).status = 200
                /\ \A d \in OwnerUpdates("user_id") : update_event(DB, u, id, d).status # 404
                /\ delete_event(DB, u, id).status # 404
                /\ (~Privileged(u) /\ events[id].user_id # u) =>
                      /\ \A d \in OwnerUpdates("user_id") :
                            update_event(DB, u, id, d).status = 403
                      /\ delete_event(DB, u, id).status = 403
        /\ IF id \notin DOMAIN tasks
           THEN /\ read_task(DB, u, id).status = 404
                /\ \A d \in TaskUpdates : update_task(DB, u, id, d).status = 404
                /\ delete_task(DB, u, id).status = 404
           ELSE /\ read_task(DB, u, id).status # 404
                /\ \A d \in TaskUpdates : update_task(DB, u, id, d).status # 404
                /\ delete_task(DB, u, id).status # 404
                /\ (~Privileged(u) /\ ~Member(u, id)) =>
                      /\ read_task(DB, u, id).status = 403
                      /\ \A d \in TaskUpdates : update_task(DB, u, id, d).status = 403
                      /\ delete_task(DB, u, id).status = 403
        /\ IF id \notin DOMAIN notes
           THEN /\ read_note(DB, u, id).status = 404
                /\ \A d \in NoteUpdates : update_note(DB, u, id, d).status = 404
                /\ delete_note(DB, u, id).status = 404
           ELSE /\ read_note(DB, u, id).status # 404
                /\ \A d \in NoteUpdates : update_note(DB, u, id, d).status # 404
                /\ delete_note(DB, u, id).status # 404
                /\ (~Privileged(u) /\ notes[id].user_id # u) =>
                      /\ read_note(DB, u, id).status = 403
                      /\ \A d \in NoteUpdates : update_note(DB, u, id, d).status = 403
                      /\ delete_note(DB, u, id).status = 403

\* C5: a decision was deleted and another principal's decision is stored; the
\* request just answered was NotFound.
C5_MissingAndForbidden ==
    \E u \in Regular, id \in DOMAIN decisions, gone \in RowIds \ DOMAIN decisions :
        /\ gone < next_id.decisions
        /\ decisions[id].user_id # u
        /\ delete_decision(DB, u, gone).status = 404
        /\ delete_decision(DB, u, id).status = 403
        /\ response = 404

\* C6 (membership full replace).  When an update of a task or a note that
\* supplies a list L for the membership key succeeds, the junction rows of the
\* row are exactly one row per id of L: every earlier row whose id is not in L
\* is gone and every id of L has its row; the rows of other tasks and notes
\* are as before.
C6_MembershipFullReplace ==
    \A u \in Principals :
        /\ \A t \in DOMAIN tasks, d \in TaskUpdates :
              ("assignees" \in DOMAIN d /\ d.assignees.is_list) =>
                  LET r == update_task(DB, u, t, d)
                  IN  r.status = 200 =>
                          /\ RowsOf(r.db.task_assignees, t) = ListRows(t, d.assignees.items)
                          /\ Cardinality(RowsOf(r.db.task_assignees, t)) = Len(d.assignees.items)
                          /\ \A o \in DOMAIN tasks \ {t} :
                                RowsOf(r.db.task_assignees, o) = RowsOf(task_assignees, o)
        /\ \A n \in DOMAIN notes, d \in NoteUpdates :
              ("shared_with" \in DOMAIN d /\ d.shared_with.is_list) =>
                  LET r == update_note(DB, u, n, d)
                  IN  r.status = 200 =>
                          /\ RowsOf(r.db.note_shares, n) = ListRows(n, d.shared_with.items)
                          /\ Cardinality(RowsOf(r.db.note_shares, n)) = Len(d.shared_with.items)
                          /\ \A o \in DOMAIN notes \ {n} :
                                RowsOf(r.db.note_shares, o) = RowsOf(note_shares, o)

\* C6: a task has assignees, and an update that lists none of them, but
\* another user, succeeds.
C6_MembersReplaced ==
    \E u \in Principals, t \in DOMAIN tasks, d \in TaskUpdates :
        /\ RowsOf(task_assignees, t) # {}
        /\ "assignees" \in DOMAIN d /\ d.assignees.is_list /\ d.assignees.items # <<>>
        /\ ListRows(t, d.assignees.items) \cap RowsOf(task_assignees, t) = {}
        /\ update_task(DB, u, t, d).status = 200
        /\ response = 200

\* C7 (omitting the membership key changes nothing).  An update of a task or a
\* note whose body has no membership key leaves the junction rows as they
\* were; a successful update that supplies the empty list leaves the row with
\* no junction rows; and only an update that supplies the empty list turns a
\* membership that was not empty into an empty one.
C7_OmissionNoOp ==
    \A u \in Principals :
        /\ \A t \in DOMAIN tasks, d \in TaskUpdates :
              LET r == update_task(DB, u, t, d)
              IN  /\ "assignees" \notin DOMAIN d => r.db.task_assignees = task_assignees
                  /\ ("assignees" \in DOMAIN d /\ d.assignees = List(<<>>) /\ r.status = 200)
                        => RowsOf(r.db.task_assignees, t) = {}
                  /\ (RowsOf(task_assignees, t) # {} /\ RowsOf(r.db.task_assignees, t) = {})
                        => ("assignees" \in DOMAIN d /\ d.assignees = List(<<>>))
        /\ \A n \in DOMAIN notes, d \in NoteUpdates :
              LET r == update_note(DB, u, n, d)
              IN  /\ "shared_with" \notin DOMAIN d => r.db.note_shares = note_shares
                  /\ ("shared_with" \in DOMAIN d /\ d.shared_with = List(<<>>) /\ r.status = 200)
                        => RowsOf(r.db.note_shares, n) = {}
                  /\ (RowsOf(note_shares, n) # {} /\ RowsOf(r.db.note_shares, n) = {})
                        => ("shared_with" \in DOMAIN d /\ d.shared_with = List(<<>>))

\* C7: a note is shared, and its owner's update with a membership value that
\* is no list succeeds and leaves the note with no shares.
C7_ClearedWithoutList ==
    \E u \in Principals, n \in DOMAIN notes :
        /\ RowsOf(note_shares, n) # {}
        /\ LET r == update_note(DB, u, n, [shared_with |-> NotAList])
           IN  r.status = 200 /\ RowsOf(r.db.note_shares, n) = {}

\* C8 (replace is idempotent).  Applying one update that supplies a list for
\* the membership key twice in a row leaves the junction table as applying it
\* once does; when the first application succeeds, the rows of the task or
\* note are exactly one row per id of the list, none repeated and none
\* missing.
C8_ReplaceIdempotent ==
    \A u \in Principals :
        /\ \A t \in DOMAIN tasks, d \in TaskUpdates :
              ("assignees" \in DOMAIN d /\ d.assignees.is_list) =>
                  LET once  == update_task(DB, u, t, d)
                      twice == update_task(once.db, u, t, d)
                  IN  /\ twice.db.task_assignees = once.db.task_assignees
                      /\ once.status = 200 =>
                            /\ RowsOf(twice.db.task_assignees, t)
                                  = ListRows(t, d.assignees.items)
                            /\ Cardinality(RowsOf(twice.db.task_assignees, t))
                                  = Len(d.assignees.items)
        /\ \A n \in DOMAIN notes, d \in NoteUpdates :
              ("shared_with" \in DOMAIN d /\ d.shared_with.is_list) =>
                  LET once  == update_note(DB, u, n, d)
                      twice == update_note(once.db, u, n, d)
                  IN  /\ twice.db.note_shares = once.db.note_shares
                      /\ once.status = 200 =>
                            /\ RowsOf(twice.db.note_shares, n)
                                  = ListRows(n, d.shared_with.items)
                            /\ Cardinality(RowsOf(twice.db.note_shares, n))
                                  = Len(d.shared_with.items)

\* C8: a note is shared with two users, and the update that lists the two
\* succeeds on it, and again on what it leaves.
C8_AppliedTwice ==
    \E u \in Principals, n \in DOMAIN notes, a \in UserIds, b \in UserIds :
        /\ a # b
        /\ RowsOf(note_shares, n) = {<<n, a>>, <<n, b>>}
        /\ response = 200
        /\ LET d     == [shared_with |-> List(<<a, b>>)]
               once  == update_note(DB, u, n, d)
               twice == update_note(once.db, u, n, d)
           IN  once.status = 200 /\ twice.status = 200

\* C9 (cascade-safe delete).  When the delete of a task or a note succeeds,
\* no junction row names its id, its row is gone and every principal's read of
\* the id is answered NotFound; in every state an id that is not stored has no
\* junction rows and reads as NotFound, and no stored id is one a later create
\* will allocate.
C9_CascadeSafeDelete ==
    /\ \A u \in Principals, t \in DOMAIN tasks :
          LET r == delete_task(DB, u, t)
          IN  r.status = 200 =>
                  /\ t \notin DOMAIN r.db.tasks
                  /\ RowsOf(r.db.task_assignees, t) = {}
                  /\ \A v \in DOMAIN r.db.users : read_task(r.db, v, t).status = 404
    /\ \A u \in Principals, n \in DOMAIN notes :
          LET r == delete_note(DB, u, n)
          IN  r.status = 200 =>
                  /\ n \notin DOMAIN r.db.notes
                  /\ RowsOf(r.db.note_shares, n) = {}
                  /\ \A v \in DOMAIN r.db.users : read_note(r.db, v, n).status = 404
    /\ \A id \in RowIds \ DOMAIN tasks :
          RowsOf(task_assignees, id) = {} /\ \A v \in Principals : read_task(DB, v, id).status = 404
    /\ \A id \in RowIds \ DOMAIN notes :
          RowsOf(note_shares, id) = {} /\ \A v \in Principals : read_note(DB, v, id).status = 404
    /\ \A id \in DOMAIN tasks : id < next_id.tasks
    /\ \A id \in DOMAIN notes : id < next_id.notes

\* C9: a task with two assignees is stored and its delete succeeds.
C9_TwoAssigneesDeleted ==
    \E u \in Principals, t \in DOMAIN tasks :
        /\ Cardinality(RowsOf(task_assignees, t)) = 2
        /\ delete_task(DB, u, t).status = 200

\* C10 (self-protection).  A privileged principal's delete of its own record
\* is refused with a client error on both user-delete paths (400 on the API
\* path; on the web path 400 for a super admin and 403 for an administrator)
\* and the record stays; no successful user delete removes the record of the
\* principal that asked for it.
C10_SelfProtection ==
    /\ \A u \in Admins :
          /\ LET r == delete_user(DB, u, u) IN r.status = 400 /\ r.db = DB
          /\ LET r == delete_user_route(DB, u, u)
             IN  /\ r.status = IF "super_admin" \in users[u].roles THEN 400 ELSE 403
                 /\ r.db = DB
    /\ \A u \in Principals, v \in UserIds :
          /\ LET r == delete_user(DB, u, v) IN r.status = 200 => u \in DOMAIN r.db.users
          /\ LET r == delete_user_route(DB, u, v) IN r.status = 200 => u \in DOMAIN r.db.users

\* C10: a super admin that no row refers to, so that the storage would let the
\* record go, has just been refused.
C10_SelfDeleteRefused ==
    \E u \in Admins :
        /\ "super_admin" \in users[u].roles
        /\ ~Referenced(DB, u)
        /\ delete_user(DB, u, u).status = 400
        /\ delete_user_route(DB, u, u).status = 400
        /\ response = 400

\* C11 (update atomicity across row and membership).  An update of a task or
\* a note that supplies a membership list changes the row's fields and
\* replaces the membership together or not at all: when it does not end in
\* success nothing it wrote is committed, and when it succeeds the row holds
\* the fields sent and the junction rows are those of the list.
C11_UpdateAtomic ==
    \A u \in Principals :
        /\ \A t \in DOMAIN tasks, d \in TaskUpdates :
              ("assignees" \in DOMAIN d /\ d.assignees.is_list) =>
                  LET r == update_task(DB, u, t, d)
                  IN  IF r.status = 200
                      THEN /\ \A k \in DOMAIN d \ {"assignees"} : r.db.tasks[t][k] = d[k]
                           /\ RowsOf(r.db.task_assignees, t) = ListRows(t, d.assignees.items)
                      ELSE r.db = DB
        /\ \A n \in DOMAIN notes, d \in NoteUpdates :
              ("shared_with" \in DOMAIN d /\ d.shared_with.is_list) =>
                  LET r == update_note(DB, u, n, d)
                  IN  IF r.status = 200
                      THEN /\ \A k \in DOMAIN d \ {"shared_with"} : r.db.notes[n][k] = d[k]
                           /\ RowsOf(r.db.note_shares, n) = ListRows(n, d.shared_with.items)
                      ELSE r.db = DB

\* C11: a task of a project has an assignee, and an update that takes it out
\* of the project and lists one user twice ends in a server error with the
\* project_id changed and the assignee rows as they were.
C11_RowWithoutMembers ==
    \E u \in Principals, t \in DOMAIN tasks, a \in DOMAIN users :
        /\ tasks[t].project_id # None
        /\ RowsOf(task_assignees, t) # {}
        /\ LET r == update_task(DB, u, t, [project_id |-> None, assignees |-> List(<<a, a>>)])
           IN  /\ r.status = 500
               /\ r.db.tasks[t].project_id = None
               /\ r.db.task_assignees = task_assignees

\* C12 (duplicate member ids collapse).  A create or an update of a task or a
\* note whose membership list repeats an id does what the same request with
\* each id listed once does: when that one succeeds, so does the one with the
\* repeats, and it leaves the same junction rows, one per distinct id.
C12_DuplicatesCollapse ==
    \A u \in Principals :
        /\ \A t \in DOMAIN tasks, d \in TaskUpdates, e \in TaskUpdates :
              ( /\ "assignees" \in DOMAIN d /\ d.assignees.is_list
                /\ DOMAIN e = DOMAIN d /\ e.assignees.is_list
                /\ \A k \in DOMAIN d \ {"assignees"} : e[k] = d[k]
                /\ NoRepeat(e.assignees.items)
                /\ ListRows(t, e.assignees.items) = ListRows(t, d.assignees.items)
                /\ update_task(DB, u, t, e).status = 200 )
              => /\ update_task(DB, u, t, d).status = 200
                 /\ update_task(DB, u, t, d).db.task_assignees
                       = update_task(DB, u, t, e).db.task_assignees
        /\ \A n \in DOMAIN notes, d \in NoteUpdates, e \in NoteUpdates :
              ( /\ "shared_with" \in DOMAIN d /\ d.shared_with.is_list
                /\ DOMAIN e = DOMAIN d /\ e.shared_with.is_list
                /\ \A k \in DOMAIN d \ {"shared_with"} : e[k] = d[k]
                /\ NoRepeat(e.shared_with.items)
                /\ ListRows(n, e.shared_with.items) = ListRows(n, d.shared_with.items)
                /\ update_note(DB, u, n, e).status = 200 )
              => /\ update_note(DB, u, n, d).status = 200
                 /\ update_note(DB, u, n, d).db.note_shares
                       = update_note(DB, u, n, e).db.note_shares
        /\ \A d \in TaskCreateBodies, e \in TaskCreateBodies :
              ( /\ d.assignees.is_list /\ e.assignees.is_list
                /\ e.project_id = d.project_id
                /\ NoRepeat(e.assignees.items)
                /\ ListRows(0, e.assignees.items) = ListRows(0, d.assignees.items)
                /\ create_task(DB, u, e).status = 200 )
              => /\ create_task(DB, u, d).status = 200
                 /\ create_task(DB, u, d).db.task_assignees
                       = create_task(DB, u, e).db.task_assignees

\* C12: an administrator's update of a stored task with one stored user listed
\* twice ends in a server error and leaves no row for that user.
C12_RepeatRejected ==
    \E u \in Admins, t \in DOMAIN tasks, a \in DOMAIN users :
        LET r == update_task(DB, u, t, [assignees |-> List(<<a, a>>)])
        IN  /\ update_task(DB, u, t, [assignees |-> List(<<a>>)]).status = 200
            /\ r.status = 500
            /\ RowsOf(r.db.task_assignees, t) = RowsOf(task_assignees, t)
            /\ <<t, a>> \notin task_assignees

\* C14 (note sharing does not grant access).  A non-privileged principal that
\* is in a note's shared_with rows and is not its owner is refused read,
\* update and delete of the note with 403, nothing changing, and does not get
\* the note from list; for every non-privileged principal and every note,
\* whatever the note_shares rows are, read, update and delete are refused
\* exactly when the note's user_id is not the principal, and list gives
\* exactly the notes whose user_id is the principal.
C14_SharingGrantsNothing ==
    \A u \in Regular, n \in DOMAIN notes :
        /\ (<<n, u>> \in note_shares /\ notes[n].user_id # u) =>
              /\ Denied(read_note(DB, u, n))
              /\ \A d \in NoteUpdates : Denied(update_note(DB, u, n, d))
              /\ Denied(delete_note(DB, u, n))
              /\ \A t \in Ids("tasks") \cup {None} : n \notin list_notes(DB, u, t).body
        /\ read_note(DB, u, n).status = 403 <=> notes[n].user_id # u
        /\ \A d \in NoteUpdates : update_note(DB, u, n, d).status = 403 <=> notes[n].user_id # u
        /\ delete_note(DB, u, n).status = 403 <=> notes[n].user_id # u
        /\ n \in list_notes(DB, u, None).body <=> notes[n].user_id = u

\* C14: a note of another owner is shared with a non-privileged principal,
\* whose read of it is refused and whose list does not hold it.
C14_SharedAndRefused ==
    \E u \in Regular, n \in DOMAIN notes :
        /\ <<n, u>> \in note_shares
        /\ notes[n].user_id # u
        /\ read_note(DB, u, n).status = 403
        /\ n \notin list_notes(DB, u, None).body

Carried(c) ==
    IF c = NoToken THEN {} ELSE {c.text[i] : i \in DOMAIN c.text} \ {Marker}

\* The credential of a request: the bearer token when there is one, else the
\* token of the access_token cookie.
Credential(header, cookie) ==
    IF Carried(header) # {} THEN Carried(header) ELSE Carried(cookie)

\* A token that verifies and whose claims name a subject.
WellFormed(t) == t.signed /\ ~t.expired /\ t.sub # None

\* The stored users whose email is e.
Holders(e) == {v \in DOMAIN users : users[v].email = e}

\* The ids a request names in the users table: every id there ever was.
UserTargets == UserIds

\* C13 (principal resolution outcomes).  get_current_user answers 401 exactly
\* when the request carries no token, neither as bearer token nor in the
\* access_token cookie; 403 when the token it carries does not verify, has
\* expired or has no subject; 404 when the token is well-formed and no stored
\* user has its subject as email; and otherwise returns the user whose email
\* is the subject.  No table changes in any of the four cases.
C13_PrincipalResolution ==
    \A header \in HeaderTokens, cookie \in Cookies :
        LET r == get_current_user(DB, header, cookie)
        IN  /\ r.db = DB
            /\ r.status = 401 <=> Credential(header, cookie) = {}
            /\ \A t \in Credential(header, cookie) :
                  IF ~WellFormed(t) THEN r.status = 403
                  ELSE IF Holders(t.sub) = {} THEN r.status = 404
                  ELSE r.status = 200 /\ r.body \in DOMAIN users
                       /\ users[r.body].email = t.sub

\* C13: two users are stored; the cookie login sets resolves to the second
\* one, an expired token is refused, a token whose subject no user has finds
\* nobody, and a request without token is unauthenticated.
C13_FourOutcomes ==
    \E v \in DOMAIN users, e \in Emails :
        LET good == [kind |-> "jwt", signed |-> TRUE, expired |-> FALSE, sub |-> users[v].email]
            old  == [good EXCEPT !.expired = TRUE]
            gone == [good EXCEPT !.sub = e]
        IN  /\ v # 1 /\ 1 \in DOMAIN users
            /\ get_current_user(DB, NoToken, Str(<<Marker, good>>)).status = 200
            /\ get_current_user(DB, NoToken, Str(<<Marker, good>>)).body = v
            /\ get_current_user(DB, Str(<<old>>), Str(<<Marker, good>>)).status = 403
            /\ get_current_user(DB, Str(<<gone>>), NoToken).status = 404
            /\ get_current_user(DB, NoToken, NoToken).status = 401

\* C16 (self-update cannot change roles).  Whatever body PUT /users/me is sent,
\* one with a roles field included, the caller's stored roles are after the
\* request what they were before; of the caller's record only password,
\* full_name, email and avatar_url can differ, and no other user's record and
\* no other table changes.
C16_SelfUpdateKeepsRoles ==
    \A u \in Principals, d \in UserUpdates :
        LET r == update_user_me(DB, u, d)
        IN  /\ DOMAIN r.db.users = DOMAIN users
            /\ r.db.users[u].roles = users[u].roles
            /\ \A k \in DOMAIN users[u] \ {"password", "full_name", "email", "avatar_url"} :
                  r.db.users[u][k] = users[u][k]
            /\ \A v \in DOMAIN users \ {u} : r.db.users[v] = users[v]
            /\ [r.db EXCEPT !.users = users] = DB

\* C16: a principal without the admin role sends its own record a body with
\* roles ["admin"] and a new full_name: the name is stored, the roles are not.
C16_RolesFieldIgnored ==
    \E u \in Regular :
        LET r == update_user_me(DB, u, [roles |-> {"admin"}, full_name |-> 1])
        IN  /\ users[u].full_name = None
            /\ r.status = 200
            /\ r.db.users[u].full_name = 1
            /\ r.db.users[u].roles = users[u].roles

\* C17 (user administration is privileged-only).  List, create, update and
\* delete of users through users.py and user_admin.py by a non-privileged
\* principal answer 403 and change nothing; by a privileged principal they
\* are never answered 403, whatever user they name: the list succeeds, a create
\* with an email nobody holds succeeds, an update of a stored user that keeps
\* emails distinct succeeds, and a delete of another stored user succeeds.
C17_UserAdminPrivilegedOnly ==
    \A u \in Principals :
        IF ~Privileged(u)
        THEN /\ Denied(read_users(DB, u))
             /\ \A d \in UserCreateBodies :
                   Denied(create_user(DB, u, d)) /\ Denied(create_user_admin(DB, u, d))
             /\ \A id \in UserTargets :
                   /\ Denied(delete_user(DB, u, id))
                   /\ \A d \in UserUpdates :
                         /\ Denied(update_user(DB, u, id, d))
                         /\ Denied(update_user_admin(DB, u, id, d))
        ELSE /\ read_users(DB, u).status = 200
             /\ \A d \in UserCreateBodies :
                   LET r == create_user(DB, u, d)
                       a == create_user_admin(DB, u, d)
                   IN  IF Holders(d.email) = {}
                       THEN r.status = 200 /\ a.status = 200
                       ELSE r.status # 403 /\ a.status # 403
             /\ \A id \in UserTargets :
                   LET r == delete_user(DB, u, id)
                   IN  IF id \in DOMAIN users \ {u}
                       THEN r.status = 200 /\ id \notin DOMAIN r.db.users
                       ELSE r.status # 403
             /\ \A id \in UserTargets, d \in UserUpdates :
                   LET r == update_user(DB, u, id, d)
                       a == update_user_admin(DB, u, id, d)
                   IN  IF /\ id \in DOMAIN users
                          /\ "email" \in DOMAIN d => Holders(d.email) \subseteq {id}
                       THEN /\ r.status = 200 /\ a.status = 200
                            /\ \A k \in DOMAIN d \ {"password"} : r.db.users[id][k] = d[k]
                       ELSE r.status # 403 /\ a.status # 403

\* C17: a non-privileged principal is refused the update of another user that
\* a privileged principal carries out.
C17_RefusedAndAllowed ==
    \E u \in Regular, a \in Admins, id \in DOMAIN users :
        /\ id # u /\ id # a
        /\ update_user(DB, u, id, [full_name |-> 1]).status = 403
        /\ update_user_admin(DB, u, id, [full_name |-> 1]).status = 403
        /\ update_user(DB, a, id, [full_name |-> 1]).status = 200
        /\ delete_user(DB, u, id).status = 403

\* C18 (user read by id).  A principal reads a user record exactly when it is
\* privileged or the record is its own; a non-privileged principal that names
\* another stored user is answered 403, and every principal that names an id
\* that is not stored is answered 404, whatever its privileges.
C18_UserReadById ==
    \A u \in Principals, id \in UserTargets :
        LET r == read_user_by_id(DB, u, id)
        IN  /\ r.db = DB
            /\ IF id \notin DOMAIN users THEN r.status = 404
               ELSE IF Privileged(u) \/ id = u
               THEN r.status = 200 /\ r.body.id = id /\ r.body.row = users[id]
               ELSE r.status = 403

\* C18: a privileged principal names an id that is not stored and is answered
\* 500, and a non-privileged one names another stored user and is answered
\* 400.
C18_NeitherForbiddenNorNotFound ==
    \E a \in Admins, u \in Regular, gone \in UserTargets, id \in DOMAIN users :
        /\ gone \notin DOMAIN users
        /\ read_user_by_id(DB, a, gone).status = 500
        /\ id # u
        /\ read_user_by_id(DB, u, id).status = 400

\* C19 (role set is never empty).  In every reachable state every stored user
\* has at least one role, and its roles are UserRole values.
C19_RolesNeverEmpty ==
    \A u \in DOMAIN users : users[u].roles # {} /\ users[u].roles \subseteq UserRole

\* C19: an admin update was answered 200 and a stored user has no role.
C19_RolesEmptied ==
    /\ response = 200
    /\ \E u \in DOMAIN users : users[u].roles = {}

\* C20 (duplicate email is a conflict).  A registration, an admin create, a
\* self update or an admin update whose email another stored user holds is
\* answered 400 and changes no table.
C20_DuplicateEmailConflict ==
    /\ \A d \in UserRegisterBodies :
          Holders(d.email) # {} =>
              register_user(DB, d).status = 400 /\ register_user(DB, d).db = DB
    /\ \A u \in Principals, d \in UserCreateBodies :
          (Privileged(u) /\ Holders(d.email) # {}) =>
              /\ create_user(DB, u, d).status = 400 /\ create_user(DB, u, d).db = DB
              /\ create_user_admin(DB, u, d).status = 400
              /\ create_user_admin(DB, u, d).db = DB
    /\ \A u \in Principals, d \in UserUpdates :
          ("email" \in DOMAIN d /\ Holders(d.email) \ {u} # {}) =>
              update_user_me(DB, u, d).status = 400 /\ update_user_me(DB, u, d).db = DB
    /\ \A u \in Principals, id \in DOMAIN users, d \in UserUpdates :
          (Privileged(u) /\ "email" \in DOMAIN d /\ Holders(d.email) \ {id} # {}) =>
              /\ update_user(DB, u, id, d).status = 400
              /\ update_user(DB, u, id, d).db = DB
              /\ update_user_admin(DB, u, id, d).status = 400
              /\ update_user_admin(DB, u, id, d).db = DB

\* C20: a registration with an email a stored user holds is answered 400, and
\* that user's own update to the email of a second user is answered 500.
C20_ConflictAsServerError ==
    \E u \in DOMAIN users, v \in DOMAIN users :
        /\ u # v
        /\ register_user(DB, [email |-> users[v].email, password |-> 1]).status = 400
        /\ update_user_me(DB, u, [email |-> users[v].email]).status = 500
        /\ update_user_me(DB, u, [email |-> users[v].email]).db = DB

\* C30 (delete is all-or-nothing).  A delete of a task or a note that does
\* not end in success leaves every table as it was: a task or a note that is
\* still stored after a failed delete has the junction rows it had before.
C30_DeleteAllOrNothing ==
    \A u \in Principals :
        /\ \A t \in DOMAIN tasks :
              LET r == delete_task(DB, u, t)
              IN  r.status # 200 =>
                      /\ t \in DOMAIN r.db.tasks
                      /\ RowsOf(r.db.task_assignees, t) = RowsOf(task_assignees, t)
        /\ \A n \in DOMAIN notes :
              LET r == delete_note(DB, u, n)
              IN  r.status # 200 =>
                      /\ n \in DOMAIN r.db.notes
                      /\ RowsOf(r.db.note_shares, n) = RowsOf(note_shares, n)

\* C30: a task with an assignee is the task of a note; an administrator's
\* delete of the task ends in a server error, the task is still stored and
\* its assignee rows are gone.
C30_AssigneesLost ==
    \E u \in Admins, t \in DOMAIN tasks, n \in DOMAIN notes :
        LET r == delete_task(DB, u, t)
        IN  /\ notes[n].task_id = t
            /\ RowsOf(task_assignees, t) # {}
            /\ r.status = 500
            /\ t \in DOMAIN r.db.tasks
            /\ RowsOf(r.db.task_assignees, t) = {}

\* The rows that name a user as owner or creator, and the junction rows that
\* name it.
OwnsSomething(id) ==
    \/ \E p \in DOMAIN projects : projects[p].owner_id = id
    \/ \E d \in DOMAIN decisions : decisions[d].user_id = id
    \/ \E e \in DOMAIN events : events[e].user_id = id
    \/ \E n \in DOMAIN notes : notes[n].user_id = id
IsAssignee(id) == \E r \in task_assignees : r[2] = id
IsShared(id) == \E r \in note_shares : r[2] = id

\* Every owner_id, user_id and junction user_id names a stored user (or, for
\* an owner column, nobody).
UsersResolve ==
    /\ \A p \in DOMAIN projects : projects[p].owner_id \in DOMAIN users \cup {None}
    /\ \A d \in DOMAIN decisions : decisions[d].user_id \in DOMAIN users \cup {None}
    /\ \A e \in DOMAIN events : events[e].user_id \in DOMAIN users \cup {None}
    /\ \A n \in DOMAIN notes : notes[n].user_id \in DOMAIN users \cup {None}
    /\ \A r \in task_assignees \cup note_shares : r[2] \in DOMAIN users

C22_SelfDemotionRejected ==
    \A u \in Principals, d \in UserUpdates :
        ("roles" \in DOMAIN d /\ d.roles # users[u].roles) =>
            update_user_me(DB, u, d).status \in {400, 403}

\* C22: a privileged principal sends its own record the roles ["user"] and is
\* answered 200, its stored roles being what they were.
C22_DemotionAnswered200 ==
    \E u \in Admins :
        LET r == update_user_me(DB, u, [roles |-> {"user"}])
        IN  /\ r.status = 200
            /\ r.db.users[u].roles = users[u].roles
            /\ users[u].roles # {"user"}

\* Role sets a principal may hold: the roles below ADMIN together, ADMIN,
\* SUPER_ADMIN.
RoleCombos == {{"client", "staff", "manager"}, {"admin"}, {"super_admin"}}

\* The other role sets that give principal u the is_privileged value it has.
Alike(u) ==
    {R \in RoleCombos \ {users[u].roles} :
        (R \cap {"admin", "super_admin"} # {}) <=> Privileged(u)}

\* The tables with the roles of principal u replaced.
WithRoles(db, u, R) == [db EXCEPT !.users[u].roles = R]

\* Answer q, given with roles R, is answer r: same status, same body, same
\* tables.
SameAnswer(r, q, u, R) ==
    q.status = r.status /\ q.body = r.body /\ q.db = WithRoles(r.db, u, R)

\* Principal u gets from every handler of projects, decisions, events, tasks
\* and notes, and from the user delete of the API, the answer it gets with
\* the roles R in place of its own.
FlatFor(u, R) ==
    /\ SameAnswer(list_projects(DB, u),
                  list_projects(WithRoles(DB, u, R), u), u, R)
    /\ \A id \in Ids("projects") : SameAnswer(read_project(DB, u, id),
                  read_project(WithRoles(DB, u, R), u, id), u, R)
    /\ \A b \in OwnerBodies("owner_id") : SameAnswer(create_project(DB, u, b),
                  create_project(WithRoles(DB, u, R), u, b), u, R)
    /\ \A id \in Ids("projects"), d \in OwnerUpdates("owner_id") : SameAnswer(update_project(DB, u, id, d),
                  update_project(WithRoles(DB, u, R), u, id, d), u, R)
    /\ \A id \in Ids("projects") : SameAnswer(delete_project(DB, u, id),
                  delete_project(WithRoles(DB, u, R), u, id), u, R)
    /\ SameAnswer(list_decisions(DB, u),
                  list_decisions(WithRoles(DB, u, R), u), u, R)
    /\ \A id \in Ids("decisions") : SameAnswer(read_decision(DB, u, id),
                  read_decision(WithRoles(DB, u, R), u, id), u, R)
    /\ \A b \in OwnerBodies("user_id") : SameAnswer(create_decision(DB, u, b),
                  create_decision(WithRoles(DB, u, R), u, b), u, R)
    /\ \A id \in Ids("decisions"), d \in OwnerUpdates("user_id") : SameAnswer(update_decision(DB, u, id, d),
                  update_decision(WithRoles(DB, u, R), u, id, d), u, R)
    /\ \A id \in Ids("decisions") : SameAnswer(delete_decision(DB, u, id),
                  delete_decision(WithRoles(DB, u, R), u, id), u, R)
    /\ SameAnswer(list_events(DB, u),
                  list_events(WithRoles(DB, u, R), u), u, R)
    /\ \A id \in Ids("events") : SameAnswer(read_event(DB, u, id),
                  read_event(WithRoles(DB, u, R), u, id), u, R)
    /\ \A b \in OwnerBodies("user_id") : SameAnswer(create_event(DB, u, b),
                  create_event(WithRoles(DB, u, R), u, b), u, R)
    /\ \A id \in Ids("events"), d \in OwnerUpdates("user_id") : SameAnswer(update_event(DB, u, id, d),
                  update_event(WithRoles(DB, u, R), u, id, d), u, R)
    /\ \A id \in Ids("events") : SameAnswer(delete_event(DB, u, id),
                  delete_event(WithRoles(DB, u, R), u, id), u, R)
    /\ \A f \in Ids("projects") \cup {None} : SameAnswer(list_tasks(DB, u, f),
                  list_tasks(WithRoles(DB, u, R), u, f), u, R)
    /\ \A id \in Ids("tasks") : SameAnswer(read_task(DB, u, id),
                  read_task(WithRoles(DB, u, R), u, id), u, R)
    /\ \A b \in TaskCreateBodies : SameAnswer(create_task(DB, u, b),
                  create_task(WithRoles(DB, u, R), u, b), u, R)
    /\ \A id \in Ids("tasks"), d \in TaskUpdates : SameAnswer(update_task(DB, u, id, d),
                  update_task(WithRoles(DB, u, R), u, id, d), u, R)
    /\ \A id \in Ids("tasks") : SameAnswer(delete_task(DB, u, id),
                  delete_task(WithRoles(DB, u, R), u, id), u, R)
    /\ \A f \in Ids("tasks") \cup {None} : SameAnswer(list_notes(DB, u, f),
                  list_notes(WithRoles(DB, u, R), u, f), u, R)
    /\ \A id \in Ids("notes") : SameAnswer(read_note(DB, u, id),
                  read_note(WithRoles(DB, u, R), u, id), u, R)
    /\ \A b \in NoteCreateBodies : SameAnswer(create_note(DB, u, b),
                  create_note(WithRoles(DB, u, R), u, b), u, R)
    /\ \A id \in Ids("notes"), d \in NoteUpdates : SameAnswer(update_note(DB, u, id, d),
                  update_note(WithRoles(DB, u, R), u, id, d), u, R)
    /\ \A id \in Ids("notes") : SameAnswer(delete_note(DB, u, id),
                  delete_note(WithRoles(DB, u, R), u, id), u, R)
    /\ \A id \in UserIds : SameAnswer(delete_user(DB, u, id),
                  delete_user(WithRoles(DB, u, R), u, id), u, R)

RolesKept(r) ==
    \A v \in DOMAIN r.db.users :
        IF v \in DOMAIN users THEN r.db.users[v].roles = users[v].roles
        ELSE r.db.users[v].roles = {"user"}

\* C29 (no privilege escalation by non-privileged principals).  No request of
\* a caller that is unauthenticated (registration, principal resolution) or
\* non-privileged (self-update, every handler of projects, decisions, events,
\* tasks and notes, and every user administration endpoint it may try)
\* changes the roles of a stored user; a user that a registration stores has
\* exactly the roles ["user"]; so no request of such a caller brings a user
\* with ADMIN or SUPER_ADMIN into existence.
C29_NoEscalation ==
    /\ \A d \in UserRegisterBodies : RolesKept(register_user(DB, d))
    /\ \A u \in Regular :
          /\ RolesKept(list_projects(DB, u))
          /\ \A id \in Ids("projects") : RolesKept(read_project(DB, u, id))
          /\ \A b \in OwnerBodies("owner_id") : RolesKept(create_project(DB, u, b))
          /\ \A id \in Ids("projects"), d \in OwnerUpdates("owner_id") : 
                RolesKept(update_project(DB, u, id, d))
          /\ \A id \in Ids("projects") : RolesKept(delete_project(DB, u, id))
          /\ RolesKept(list_decisions(DB, u))
          /\ \A id \in Ids("decisions") : RolesKept(read_decision(DB, u, id))
          /\ \A b \in OwnerBodies("user_id") : RolesKept(create_decision(DB, u, b))
          /\ \A id \in Ids("decisions"), d \in OwnerUpdates("user_id") : 
                RolesKept(update_decision(DB, u, id, d))
          /\ \A id \in Ids("decisions") : RolesKept(delete_decision(DB, u, id))
          /\ RolesKept(list_events(DB, u))
          /\ \A id \in Ids("events") : RolesKept(read_event(DB, u, id))
          /\ \A b \in OwnerBodies("user_id") : RolesKept(create_event(DB, u, b))
          /\ \A id \in Ids("events"), d \in OwnerUpdates("user_id") : 
                RolesKept(update_event(DB, u, id, d))
          /\ \A id \in Ids("events") : RolesKept(delete_event(DB, u, id))
          /\ \A f \in Ids("projects") \cup {None} : RolesKept(list_tasks(DB, u, f))
          /\ \A id \in Ids("tasks") : RolesKept(read_task(DB, u, id))
          /\ \A b \in TaskCreateBodies : RolesKept(create_task(DB, u, b))
          /\ \A id \in Ids("tasks"), d \in TaskUpdates : 
                RolesKept(update_task(DB, u, id, d))
          /\ \A id \in Ids("tasks") : RolesKept(delete_task(DB, u, id))
          /\ \A f \in Ids("tasks") \cup {None} : RolesKept(list_notes(DB, u, f))
          /\ \A id \in Ids("notes") : RolesKept(read_note(DB, u, id))
          /\ \A b \in NoteCreateBodies : RolesKept(create_note(DB, u, b))
          /\ \A id \in Ids("notes"), d \in NoteUpdates : 
                RolesKept(update_note(DB, u, id, d))
          /\ \A id \in Ids("notes") : RolesKept(delete_note(DB, u, id))
          /\ RolesKept(read_users(DB, u))
          /\ RolesKept(read_user_me(DB, u))
          /\ \A id \in UserTargets : RolesKept(read_user_by_id(DB, u, id))
          /\ \A d \in UserUpdates : RolesKept(update_user_me(DB, u, d))
          /\ \A d \in UserCreateBodies : RolesKept(create_user(DB, u, d))
          /\ \A d \in UserCreateBodies : RolesKept(create_user_admin(DB, u, d))
          /\ \A id \in UserTargets, d \in UserUpdates : 
                RolesKept(update_user(DB, u, id, d))
          /\ \A id \in UserTargets, d \in UserUpdates : 
                RolesKept(update_user_admin(DB, u, id, d))
          /\ \A id \in UserTargets : RolesKept(delete_user(DB, u, id))
          /\ \A id \in UserTargets : RolesKept(delete_user_route(DB, u, id))
          /\ \A t \in TableNames, c \in PkColumns, id \in UserTargets, d \in GenericUpdates : 
                RolesKept(update_generic_table_row(DB, u, t, c, id, d))

\* C29: a non-privileged principal is refused the creation of a user with the
\* role admin and the generic row update that would give itself that role,
\* and a registration stores a user with the roles ["user"].
C29_RegularStaysRegular ==
    \E u \in Regular, e \in Emails :
        /\ create_user(DB, u, [email |-> e, password |-> 1, roles |-> {"admin"}]).status = 403
        /\ update_generic_table_row(DB, u, "users", "id", u, [roles |-> {"admin"}]).status = 403
        /\ LET r == register_user(DB, [email |-> e, password |-> 1])
           IN  /\ r.status = 200
               /\ r.db.users[r.body.id].roles = {"user"}

\* ---------------------------------------------------- login and tokens ----

\* verify_password(plain_password, hashed_password): the hash of the password
\* sent is the hash stored.
verify_password(plain_password, hashed_password) ==
    get_password_hash(plain_password) = hashed_password

\* create_access_token(subject, expires_delta): a token signed with
\* SECRET_KEY whose "sub" claim is the subject and which has not expired.
create_access_token(subject) ==
    [kind |-> "jwt", signed |-> TRUE, expired |-> FALSE, sub |-> subject]

\* POST /api/v1/auth/login: the form's username is the email; the body of a
\* 200 answer is the user found, the access token and the cookie set.
login(db, form_data) ==
    LET found == ByEmail(db, form_data.username)
    IN  IF found = {} THEN Raise(db, 401)
        ELSE LET user == CHOOSE v \in found : TRUE
             IN  IF ~verify_password(form_data.password, db.users[user].password)
                 THEN Raise(db, 401)
                 ELSE LET access_token == create_access_token(db.users[user].email)
                      IN  Answer(200, [user |-> user, access_token |-> access_token,
                                        cookie |-> Str(<<Marker, access_token>>)], db)

\* OAuth2PasswordRequestForm: a username and a password, right or wrong.
WrongPassword == 2
LoginForms == [username : Emails, password : Texts \cup {WrongPassword}]

\* The tokens the model follows at a time.
MaxTokens == 1

Login ==
    /\ Cardinality(issued) < MaxTokens
    /\ \E form_data \in LoginForms :
          LET r == login(DB, form_data)
          IN  /\ Store(r)
              /\ issued' = IF r.status = 200
                           THEN issued \cup {[user |-> r.body.user,
                                              token |-> r.body.access_token]}
                           ELSE issued
              /\ UNCHANGED <<USE_SSH, _tunnel, _engine, threads, built, returned, requests>>

\* What get_current_user answers to an issued token, sent as the bearer
\* header or as the cookie login set.
Resolutions(i) ==
    {get_current_user(DB, Str(<<i.token>>), NoToken),
     get_current_user(DB, NoToken, Str(<<Marker, i.token>>))}

\* A request that carries an issued token.
PresentToken == \E i \in issued : \E r \in Resolutions(i) : Commit(r)

\* The updates that change an email and nothing else.
EmailEdits == {d \in UserEdits : DOMAIN d = {"email"}}
ChangeOwnEmail ==
    \E u \in Principals, d \in EmailEdits : Commit(update_user_me(DB, u, d))
ChangeEmail ==
    \E u \in Principals, id \in UserIds, d \in EmailEdits :
        Commit(update_user(DB, u, id, d))

\* Login, the requests that change which user holds which email, and
\* principal resolution.
TokenNext ==
    \/ Login \/ RegisterUser \/ PresentToken
    \/ ChangeOwnEmail \/ ChangeEmail \/ DeleteUser

TokenSpec == UserInit /\ [][TokenNext]_vars

\* C28: a token login issued to a principal resolves to that principal or
\* to a failure, never to another principal, whatever email changes,
\* deletions and registrations have happened since.
C28_TokenBoundToPrincipal ==
    \A i \in issued : \A r \in Resolutions(i) : r.status = 200 => r.body = i.user

\* C28: a token issued to one user resolves to another user, who holds the
\* email the token names now.
C28_TokenResolvesToAnother ==
    \E i \in issued : \E r \in Resolutions(i) :
        /\ r.status = 200
        /\ r.body # i.user
        /\ users[r.body].email = i.token.sub

\* ------------------------------------------------------------- engine ----

\* The tables and the tokens, which get_engine does not touch.
Untouched ==
    UNCHANGED <<users, projects, decisions, events, tasks, task_assignees, notes,
                note_shares, next_id, response, issued, USE_SSH, requests>>

\* A thread moves to another statement of get_engine.
Goto(t, pc) == threads' = [threads EXCEPT ![t].pc = pc]

\* A thread calls get_engine().
CallGetEngine ==
    \E t \in Threads :
        /\ threads[t].pc = "idle"
        /\ threads[t].calls < MaxCalls
        /\ threads' = [threads EXCEPT ![t] = [pc |-> "check_engine", calls |-> @.calls + 1]]
        /\ UNCHANGED <<_tunnel, _engine, built, returned>>
        /\ Untouched

\* if _engine is not None: return _engine
CheckEngine ==
    \E t \in Threads :
        /\ threads[t].pc = "check_engine"
        /\ IF _engine # None
           THEN Goto(t, "idle") /\ returned' = returned \cup {_engine}
           ELSE Goto(t, "check_use_ssh") /\ UNCHANGED returned
        /\ UNCHANGED <<_tunnel, _engine, built>>
        /\ Untouched

\* if settings.USE_SSH:
CheckUseSsh ==
    \E t \in Threads :
        /\ threads[t].pc = "check_use_ssh"
        /\ Goto(t, IF USE_SSH THEN "check_tunnel" ELSE "create_engine")
        /\ UNCHANGED <<_tunnel, _engine, built, returned>>
        /\ Untouched

\* if _tunnel is None:
CheckTunnel ==
    \E t \in Threads :
        /\ threads[t].pc = "check_tunnel"
        /\ Goto(t, IF _tunnel = None THEN "new_tunnel" ELSE "create_engine")
        /\ UNCHANGED <<_tunnel, _engine, built, returned>>
        /\ Untouched

\* _tunnel = SSHTunnelForwarder(...): one more tunnel, not started yet.
NewTunnel ==
    \E t \in Threads :
        /\ threads[t].pc = "new_tunnel"
        /\ built' = [built EXCEPT !.tunnels = @ + 1, !.starts = Append(@, 0)]
        /\ _tunnel' = built.tunnels + 1
        /\ Goto(t, "start_tunnel")
        /\ UNCHANGED <<_engine, returned>>
        /\ Untouched

\* _tunnel.start(): the tunnel the global names now is started.
StartTunnel ==
    \E t \in Threads :
        /\ threads[t].pc = "start_tunnel"
        /\ built' = [built EXCEPT !.starts[_tunnel] = @ + 1]
        /\ Goto(t, "create_engine")
        /\ UNCHANGED <<_tunnel, _engine, returned>>
        /\ Untouched

\* _engine = create_engine(...), through the tunnel or not: one more engine.
CreateEngine ==
    \E t \in Threads :
        /\ threads[t].pc = "create_engine"
        /\ built' = [built EXCEPT !.engines = @ + 1]
        /\ _engine' = built.engines + 1
        /\ Goto(t, "return_engine")
        /\ UNCHANGED <<_tunnel, returned>>
        /\ Untouched

\* return _engine: the engine the global names now.
ReturnEngine ==
    \E t \in Threads :
        /\ threads[t].pc = "return_engine"
        /\ returned' = returned \cup {_engine}
        /\ Goto(t, "idle")
        /\ UNCHANGED <<_tunnel, _engine, built>>
        /\ Untouched

\* The module before any call of get_engine, under either setting; the
\* threads' calls interleave statement by statement.
EngineInit ==
    /\ users = [u \in {1} |-> StoredUser(1, 1, FirstUserRoles)]
    /\ projects = <<>>
    /\ decisions = <<>>
    /\ events = <<>>
    /\ tasks = <<>>
    /\ task_assignees = {}
    /\ notes = <<>>
    /\ note_shares = {}
    /\ next_id = [projects |-> 1, decisions |-> 1, events |-> 1, tasks |-> 1, notes |-> 1,
                  users |-> 2]
    /\ response = None
    /\ issued = {}
    /\ USE_SSH \in BOOLEAN
    /\ _tunnel = None
    /\ _engine = None
    /\ threads = [t \in Threads |-> [pc |-> "idle", calls |-> 0]]
    /\ built = [engines |-> 0, tunnels |-> 0, starts |-> <<>>]
    /\ returned = {}
    /\ NoRequests

EngineNext ==
    \/ CallGetEngine \/ CheckEngine \/ CheckUseSsh \/ CheckTunnel
    \/ NewTunnel \/ StartTunnel \/ CreateEngine \/ ReturnEngine

EngineSpec == EngineInit /\ [][EngineNext]_vars

C27_TwoTunnels ==
    /\ USE_SSH
    /\ built.tunnels = 2
    /\ \A i \in DOMAIN built.starts : built.starts[i] = 1

\* ------------------------------------------- requests side by side ----

\* The junction table and the resource table of a kind of resource.
Junction(kind) == IF kind = "task" THEN task_assignees ELSE note_shares
Resource(kind) == IF kind = "task" THEN tasks ELSE notes

\* The open transactions of other connections on the same resource.
Others(w) ==
    {v \in Workers \ {w} : /\ requests[v].tx.open
                           /\ requests[v].kind = requests[w].kind
                           /\ requests[v].rid = requests[w].rid}

\* A faulty storage layer: no statement ever waits for another transaction.
Blocked_never(w, stmt) == FALSE

\* The statement has to wait: a DELETE of junction rows and the delete of the
\* resource row wait for a transaction that has deleted or inserted junction
\* rows of the resource (their records are locked), an INSERT waits for any
\* transaction that has run a DELETE over the resource's rows (the range is
\* locked).
Blocked(w, stmt) ==
    \E v \in Others(w) :
        stmt = "insert" \/ requests[v].tx.deleted \cup requests[v].tx.inserted # {}

\* A faulty connection: every statement is committed as it is executed.
AfterStatement_autocommit(rows, tx) == (rows \ tx.deleted) \cup tx.inserted

\* connection.execute on a connection of engine.connect(): what the
\* statement wrote stays in the connection's transaction.
AfterStatement(rows, tx) == rows

\* connection.commit(): the rows the transaction deleted go, the rows it
\* inserted are stored.
AfterCommit(rows, tx) == (rows \ tx.deleted) \cup tx.inserted

\* A faulty foreign key: a junction row may name a resource row that is gone.
ParentExists_unchecked(kind, rid) == TRUE

\* The foreign key of a junction row to its resource row.
ParentExists(kind, rid) == rid \in DOMAIN Resource(kind)

SetJunction(kind, rows) ==
    IF kind = "task" THEN task_assignees' = rows /\ UNCHANGED note_shares
    ELSE note_shares' = rows /\ UNCHANGED task_assignees

SetResource(kind, table) ==
    IF kind = "task" THEN tasks' = table /\ UNCHANGED notes
    ELSE notes' = table /\ UNCHANGED tasks

\* What no statement of these handlers writes.
Elsewhere ==
    UNCHANGED <<users, projects, decisions, events, next_id, issued,
                USE_SSH, _tunnel, _engine, threads, built, returned>>
TablesKept == UNCHANGED <<tasks, task_assignees, notes, note_shares>>

\* The request goes on with its next statement.
Step(w, pc) ==
    /\ requests' = [requests EXCEPT ![w].pc = pc]
    /\ UNCHANGED response

\* The request is answered; an exception leaves the `with` block and the
\* open transaction is rolled back.
Finish(w, status) ==
    /\ requests' = [requests EXCEPT ![w].pc = "done", ![w].status = status, ![w].tx = NoTx]
    /\ response' = status

\* The principals and the membership lists of the requests: an administrator
\* and a regular user; lists with a repeated id and with an unknown user.
Requesters == {2, 3}
RaceLists == {<<>>, <<1>>, <<2>>, <<1, 2>>, <<2, 2>>, <<1, NumUsers + 1>>}
Kinds == {"task", "note"}

\* PATCH /tasks/1 or PATCH /notes/1 with a membership list arrives.
SendUpdate ==
    \E w \in Workers, kind \in Kinds, u \in Requesters, ids \in RaceLists :
        /\ requests[w].pc = "start"
        /\ requests' = [requests EXCEPT ![w] =
                           [NoRequest EXCEPT !.kind = kind, !.op = "update", !.u = u,
                                             !.rid = 1, !.ids = ids, !.pc = "get"]]
        /\ UNCHANGED response
        /\ TablesKept /\ Elsewhere

\* DELETE /tasks/1 or DELETE /notes/1 arrives.
SendDelete ==
    \E w \in Workers, kind \in Kinds, u \in Requesters :
        /\ requests[w].pc = "start"
        /\ requests' = [requests EXCEPT ![w] =
                           [NoRequest EXCEPT !.kind = kind, !.op = "delete", !.u = u,
                                             !.rid = 1, !.pc = "get"]]
        /\ UNCHANGED response
        /\ TablesKept /\ Elsewhere

\* db.get(...), 404 without the row, and the permission check.
GetRow ==
    \E w \in Workers :
        LET r == requests[w]
        IN  /\ r.pc = "get"
            /\ IF ~Exists(Resource(r.kind), r.rid) THEN Finish(w, 404)
               ELSE IF /\ ~is_privileged(DB, r.u)
                       /\ IF r.kind = "task" THEN ~project_owned(DB, r.u, r.rid)
                          ELSE notes[r.rid].user_id # r.u
                    THEN Finish(w, 403)
               ELSE Step(w, IF r.op = "update" THEN "commit_row" ELSE "delete_rows")
            /\ TablesKept /\ Elsewhere

\* db.add(...); db.commit() of an update that sets no field of the row.
CommitRow ==
    \E w \in Workers :
        /\ requests[w].pc = "commit_row"
        /\ Step(w, "delete_rows")
        /\ TablesKept /\ Elsewhere

\* connection.execute(DELETE FROM <junction> WHERE <resource id> = :id)
DeleteJunctionRows ==
    \E w \in Workers :
        LET r  == requests[w]
            tx == [open |-> TRUE, deleted |-> {x \in Junction(r.kind) : x[1] = r.rid},
                   inserted |-> {}]
        IN  /\ r.pc = "delete_rows"
            /\ ~Blocked(w, "delete")
            /\ requests' = [requests EXCEPT
                               ![w].tx = tx,
                               ![w].i = 1,
                               ![w].pc = IF r.op = "update" /\ r.ids # <<>>
                                         THEN "insert" ELSE "commit_rows"]
            /\ SetJunction(r.kind, AfterStatement(Junction(r.kind), tx))
            /\ UNCHANGED <<response, tasks, notes>>
            /\ Elsewhere

\* connection.execute(INSERT INTO <junction> ...) for the next id of the
\* list: the composite primary key and the two foreign keys are checked.
InsertJunctionRow ==
    \E w \in Workers :
        LET r       == requests[w]
            row     == <<r.rid, r.ids[r.i]>>
            visible == (Junction(r.kind) \ r.tx.deleted) \cup r.tx.inserted
            tx      == [r.tx EXCEPT !.inserted = @ \cup {row}]
        IN  /\ r.pc = "insert"
            /\ ~Blocked(w, "insert")
            /\ IF row \in visible \/ r.ids[r.i] \notin DOMAIN users
                  \/ ~ParentExists(r.kind, r.rid)
               THEN Finish(w, 500) /\ TablesKept
               ELSE /\ requests' = [requests EXCEPT
                                       ![w].tx = tx,
                                       ![w].i = r.i + 1,
                                       ![w].pc = IF r.i = Len(r.ids)
                                                 THEN "commit_rows" ELSE "insert"]
                    /\ SetJunction(r.kind, AfterStatement(Junction(r.kind), tx))
                    /\ UNCHANGED <<response, tasks, notes>>
            /\ Elsewhere

\* connection.commit()
CommitJunctionRows ==
    \E w \in Workers :
        LET r == requests[w]
        IN  /\ r.pc = "commit_rows"
            /\ requests' = [requests EXCEPT
                               ![w].tx = NoTx,
                               ![w].pc = IF r.op = "update" THEN "refresh" ELSE "delete_row"]
            /\ SetJunction(r.kind, AfterCommit(Junction(r.kind), r.tx))
            /\ UNCHANGED <<response, tasks, notes>>
            /\ Elsewhere

\* db.refresh(...) and the return of an update: the row has to be there.
RefreshRow ==
    \E w \in Workers :
        LET r == requests[w]
        IN  /\ r.pc = "refresh"
            /\ Finish(w, IF Exists(Resource(r.kind), r.rid) THEN 200 ELSE 500)
            /\ TablesKept /\ Elsewhere

\* db.delete(...); db.commit(): junction rows of the resource, a note of the
\* task, or a row that is gone already stop it.
DeleteResourceRow ==
    \E w \in Workers :
        LET r == requests[w]
        IN  /\ r.pc = "delete_row"
            /\ ~Blocked(w, "delete_row")
            /\ IF \/ ~Exists(Resource(r.kind), r.rid)
                  \/ \E x \in Junction(r.kind) : x[1] = r.rid
                  \/ r.kind = "task" /\ \E n \in DOMAIN notes : notes[n].task_id = r.rid
               THEN Finish(w, 500) /\ TablesKept
               ELSE /\ Finish(w, 200)
                    /\ SetResource(r.kind, Remove(Resource(r.kind), r.rid))
                    /\ UNCHANGED <<task_assignees, note_shares>>
            /\ Elsewhere

\* The storage layer ends a statement that meets another open transaction
\* on the resource with an error (a deadlock, a lock wait that times out, a
\* locked database) instead of letting it wait.
LockError ==
    \E w \in Workers :
        /\ requests[w].pc \in {"delete_rows", "insert", "delete_row"}
        /\ Others(w) # {}
        /\ Finish(w, 500)
        /\ TablesKept /\ Elsewhere

\* One task and one note, each with no member or with one, and the workers
\* with no request yet.
RaceInit ==
    /\ users = [u \in UserIds |->
                   IF u = 1 THEN StoredUser(u, 1, FirstUserRoles)
                   ELSE StoredUser(u, None, IF u = 2 THEN {"admin"} ELSE {"user"})]
    /\ projects = <<>>
    /\ decisions = <<>>
    /\ events = <<>>
    /\ tasks = [t \in {1} |-> [project_id |-> None]]
    /\ task_assignees \in {{}, {<<1, 1>>}}
    /\ notes = [n \in {1} |-> [user_id |-> 3, task_id |-> None]]
    /\ note_shares \in {{}, {<<1, 1>>}}
    /\ next_id = [projects |-> 1, decisions |-> 1, events |-> 1, tasks |-> 2, notes |-> 2,
                  users |-> NumUsers + 1]
    /\ response = None
    /\ issued = {}
    /\ EngineImported
    /\ NoRequests

RaceNext ==
    \/ SendUpdate \/ SendDelete \/ GetRow \/ CommitRow
    \/ DeleteJunctionRows \/ InsertJunctionRow \/ CommitJunctionRows
    \/ RefreshRow \/ DeleteResourceRow \/ LockError

RaceSpec == RaceInit /\ [][RaceNext]_vars

\* The committed junction rows of the one task or note of a kind.
Members(kind) == {x \in Junction(kind) : x[1] = 1}

\* C24: membership replacement is never partial.  Whenever the committed
\* junction rows of a task or a note change, a request on that resource is
\* committing its transaction, and the rows become the whole list of that
\* update (or none, for a delete): a failed insert leaves the rows as they
\* were, and no other request sees the old rows gone with only some of the
\* new rows there.
C24_ReplacementWhole ==
    [][\A kind \in Kinds :
          {x \in Junction(kind)' : x[1] = 1} # Members(kind) =>
              \E w \in Workers :
                  /\ requests[w].kind = kind
                  /\ requests[w].pc = "commit_rows"
                  /\ requests'[w].pc # "commit_rows"
                  /\ {x \in Junction(kind)' : x[1] = 1}
                       = IF requests[w].op = "update"
                         THEN ListRows(1, requests[w].ids) ELSE {}]_vars

\* C24: an update has deleted the old rows and inserted the first of two new
\* ones on its connection, the second names an unknown user, and the rows
\* committed are still the old ones.
C24_PartialUnseen ==
    \E w \in Workers :
        LET r == requests[w]
        IN  /\ r.op = "update"
            /\ r.pc = "insert"
            /\ r.tx.deleted # {}
            /\ r.tx.inserted # {}
            /\ r.ids[r.i] \notin DOMAIN users
            /\ Members(r.kind) = r.tx.deleted
            /\ Members(r.kind) # r.tx.inserted

\* Every junction row names a resource row that is stored.
NoOrphanRows ==
    /\ \A x \in task_assignees : x[1] \in DOMAIN tasks
    /\ \A x \in note_shares : x[1] \in DOMAIN notes

\* A resource row goes only when no junction row of it is committed.
RowsGoFirst ==
    /\ \A t \in DOMAIN tasks : t \notin DOMAIN tasks' => \A x \in task_assignees : x[1] # t
    /\ \A n \in DOMAIN notes : n \notin DOMAIN notes' => \A x \in note_shares : x[1] # n

On(kind) == {w \in Workers : requests[w].kind = kind}

\* C26: last write wins.  When the requests on a task or a note are updates
\* of its membership, all of them have completed, whatever the interleaving
\* of their statements, and one has succeeded, the stored membership is the
\* list of one that succeeded: never a union or another mixture of the lists.
C26_LastWriteWins ==
    \A kind \in Kinds :
        ( /\ \A w \in On(kind) : requests[w].op = "update" /\ requests[w].pc = "done"
          /\ \E w \in On(kind) : requests[w].status = 200 ) =>
            \E x \in On(kind) :
                /\ requests[x].status = 200
                /\ Members(kind) = ListRows(1, requests[x].ids)

\* C26: two updates of the same resource with different lists that have a
\* member in common have both succeeded, and the membership is one list.
C26_OneListStored ==
    \E w \in Workers, v \in Workers :
        /\ requests[w].op = "update" /\ requests[v].op = "update"
        /\ requests[w].kind = requests[v].kind
        /\ requests[w].status = 200 /\ requests[v].status = 200
        /\ ListRows(1, requests[w].ids) \cap ListRows(1, requests[v].ids) # {}
        /\ ListRows(1, requests[w].ids) # ListRows(1, requests[v].ids)
        /\ Members(requests[w].kind) = ListRows(1, requests[v].ids)
====
